---- MODULE Spec2Model ----
(***************************************************************************)
(* Capture pipeline of evr-data-recorder: supervisor, discovery loop,      *)
(* match sessions (replay-file session, events sink, fan-out), pollers.    *)
(*                                                                         *)
(* The repository carries two generations of the pipeline:                 *)
(*   "recorder": main.go + recorder/*        (single replay-file session)  *)
(*   "agent"   : cmd agent + internal/agent  (replay file, optional events *)
(*               sink, MultiWriter fan-out)                                *)
(* variant selects the generation; events selects the --events flag.       *)
(***************************************************************************)
EXTENDS Integers, Sequences, FiniteSets, TLC

\* ---------------------------------------------------------------- bounds
MaxSlots == 1           \* sessions whose tasks are alive at a time
MaxFrames == 2          \* frames the pollers build over the run
MaxMatches == 3         \* matches a game server lives through
QueueCap == 1           \* stands for the 1000-slot outgoingCh
TimeoutTicks == 2       \* stands for 5 s inactivity / polling interval
ChunkFrames == 2        \* stands for zipFileChunkSize in records

BaseURLs == {1}
Targets == <<1>>
Sids == 1..MaxSlots

VARIABLES
    variant,    \* "recorder" | "agent"
    events,     \* cfg.Agent.EventsEnabled
    sup,        \* supervisor: "running" | "cancelled" | "exited"
    disc,       \* discovery loop: [pc, i]
    registry,   \* sessions map: base URL -> session slot (0 = no entry)
    recorded,   \* per base URL: the matches a session was created for
    meta,       \* per session: [kind, m, url], m the match it records
    fs,         \* per session: replay-file session (FrameDataLogSession)
    es,         \* per session: EventsAPIWriter
    mw,         \* per session: MultiWriter
    pl,         \* per session: poller
    server,     \* per base URL: [up, n]: answering, n-th match
    nframes,    \* frames built so far
    hist,       \* history (ghost) per session
    sk,         \* a FrameWriter driven call by call (specification SinkSpec)
    call        \* a function applied to drawn arguments: [fn, arg, ret, n]

pipeline == <<variant, events, sup, disc, registry, recorded, meta, fs, es,
              mw, pl, server, nframes, hist>>

vars == <<pipeline, sk, call>>

\* ---------------------------------------------------------------- helpers
Min(a, b) == IF a < b THEN a ELSE b

\* context.WithCancel(ctx) of the supervisor: done when the child or the
\* parent is cancelled
SupDone == sup # "running"

\* ---------------------------------------------------------- game server
\* the session UUID of the n-th match of a game server
MatchUUID(n) == IF n % 2 = 1 THEN "A" ELSE "B"

\* the sessionid inside the session bytes of a frame
FrameUUID(frame) == IF frame.m = 0 THEN "" ELSE MatchUUID(frame.m)

\* ------------------------------------------------- replay-file session
NewFrameDataLogSession ==
    [q |-> <<>>, stopped |-> FALSE, cancelled |-> FALSE, pf |-> "run",
     buf |-> <<>>, out |-> <<>>, closed |-> FALSE]

NoFileSession ==
    [q |-> <<>>, stopped |-> FALSE, cancelled |-> FALSE, pf |-> "none",
     buf |-> <<>>, out |-> <<>>, closed |-> FALSE]

\* fw.ctx.Done(): the session context is a child of the supervisor context
FileCtxDone(f) == f.cancelled \/ SupDone

\* FrameDataLogSession.Close
FileClose(f) == [f EXCEPT !.cancelled = TRUE, !.stopped = TRUE]

\* a WriteFrame whose select has no default case: with a full queue and a
\* live context the send waits, the call has no outcome
FileWriteOutcomesBlocking(f) ==
    IF f.stopped THEN {"stopped"}
    ELSE (IF Len(f.q) < QueueCap THEN {"ok"} ELSE {})
         \cup (IF FileCtxDone(f) THEN {"cancelled"} ELSE {})

\* FrameDataLogSession.WriteFrame: the outcomes of the select
FileWriteOutcomes(f) ==
    IF f.stopped THEN {"stopped"}
    ELSE (IF Len(f.q) < QueueCap THEN {"ok"} ELSE {})
         \cup (IF FileCtxDone(f) THEN {"cancelled"} ELSE {})
         \cup (IF Len(f.q) >= QueueCap /\ ~FileCtxDone(f) THEN {"full"} ELSE {})

FileWriteFrame(f, frame, r) ==
    IF r = "ok" THEN [f EXCEPT !.q = Append(@, frame)] ELSE f

\* a cleanup that stops the session and leaves the writer open: chunk
\* buffer not flushed, no container trailer
DrainFinishUnclosed(f) ==
    [f EXCEPT !.cancelled = TRUE, !.stopped = TRUE, !.pf = "done"]

\* ProcessFrames after the loop: fw.Close(), then the flush of the chunk
\* buffer and the close of the writer (container trailer, file close)
DrainFinish(f) ==
    [f EXCEPT !.cancelled = TRUE, !.stopped = TRUE,
              !.out = f.out \o f.buf, !.buf = <<>>,
              !.closed = TRUE, !.pf = "done"]

\* the threshold flush that forgets to reset the chunk buffer
WriterWriteFrameNoReset(f, frame) ==
    LET b == Append(f.buf, frame)
    IN  IF Len(b) >= ChunkFrames
        THEN [f EXCEPT !.out = f.out \o b, !.buf = b]
        ELSE [f EXCEPT !.buf = b]

\* the writer strategy's WriteFrame: append the record to the chunk buffer,
\* write the buffer through the compressor once it reaches the threshold
WriterWriteFrame(f, frame) ==
    LET b == Append(f.buf, frame)
    IN  IF Len(b) >= ChunkFrames
        THEN [f EXCEPT !.out = f.out \o b, !.buf = <<>>]
        ELSE [f EXCEPT !.buf = b]

\* ProcessFrames of the agent generation when os.Create fails: the early
\* return comes before the loop and before fw.Close()
ProcessFramesCreateFails(f) == [f EXCEPT !.pf = "done"]

\* no frame has been taken from the queue by ProcessFrames yet
NothingDrained(f) == f.pf = "run" /\ f.buf = <<>> /\ f.out = <<>>

\* the frame at the head of the queue would be written through to the file
DrainWritesChunk(f, uuid) ==
    /\ f.q # <<>>
    /\ ~f.stopped
    /\ FrameUUID(Head(f.q)) = uuid
    /\ Len(f.buf) + 1 >= ChunkFrames

\* ProcessFrames when file.Write of the chunk fails: break OuterLoop,
\* fw.Close(), the remaining buffer is not written, the deferred closes run
DrainWriteFails(f) ==
    [f EXCEPT !.q = Tail(f.q), !.buf = Append(f.buf, Head(f.q)),
              !.cancelled = TRUE, !.stopped = TRUE,
              !.closed = TRUE, !.pf = "done"]

\* ProcessFrames, case frame := <-fw.outgoingCh
DrainFrame(f, uuid) ==
    LET frame == Head(f.q)
        g == [f EXCEPT !.q = Tail(f.q)]
    IN  IF g.stopped THEN DrainFinish(g)
        ELSE IF FrameUUID(frame) = "" THEN DrainFinish(g)
        ELSE IF FrameUUID(frame) # uuid THEN DrainFinish(g)
        ELSE WriterWriteFrame(g, frame)

\* the drain task saw a frame of another match (session drift)
DrainSeesDrift(f, uuid) ==
    /\ f.q # <<>>
    /\ ~f.stopped
    /\ FrameUUID(Head(f.q)) # ""
    /\ FrameUUID(Head(f.q)) # uuid

\* --------------------------------------------------------- events sink
NewEventsAPIWriter ==
    [q |-> <<>>, stopped |-> FALSE, cancelled |-> FALSE, run |-> "run",
     sent |-> <<>>]

NoEventsWriter ==
    [q |-> <<>>, stopped |-> FALSE, cancelled |-> FALSE, run |-> "none",
     sent |-> <<>>]

\* EventsAPIWriter.WriteFrame: the outcomes of the call.  Whether the frame
\* carries events (len(frame.Events)) is payload content, read only here:
\* "skipped" is the return for a frame without events
EventsWriteOutcomes(e, frame) ==
    IF e.stopped THEN {"stopped"}
    ELSE {"skipped"}
         \cup (IF Len(e.q) < QueueCap THEN {"ok"} ELSE {})
         \cup (IF e.cancelled THEN {"cancelled"} ELSE {})
         \cup (IF Len(e.q) >= QueueCap /\ ~e.cancelled THEN {"full"} ELSE {})

EventsWriteFrame(e, frame, r) ==
    IF r = "ok" THEN [e EXCEPT !.q = Append(@, frame)] ELSE e

\* EventsAPIWriter.Close
EventsClose(e) ==
    IF e.stopped THEN e ELSE [e EXCEPT !.stopped = TRUE, !.cancelled = TRUE]

\* a child's WriteFrame returned nil
WriteOK(r) == r \in {"ok", "skipped"}

\* ---------------------------------------------------------- MultiWriter
NewMultiWriter == [used |-> TRUE, stopped |-> FALSE, cancelled |-> FALSE]

NoMultiWriter == [used |-> FALSE, stopped |-> FALSE, cancelled |-> FALSE]

\* a MultiWriter.WriteFrame that does not test mw.stopped first
MultiWriteResultNoStopTest(m, rf, re) ==
    LET successCount == (IF WriteOK(rf) THEN 1 ELSE 0)
                        + (IF WriteOK(re) THEN 1 ELSE 0)
        failed == (rf # "skip" /\ ~WriteOK(rf)) \/ (re # "skip" /\ ~WriteOK(re))
    IN  IF successCount = 0 /\ failed THEN "allfailed" ELSE "ok"

\* MultiWriter.WriteFrame: result from the children's results; a stopped
\* child is skipped (result "skip"), lastErr is set by a failing child
MultiWriteResult(m, rf, re) ==
    LET successCount == (IF WriteOK(rf) THEN 1 ELSE 0)
                        + (IF WriteOK(re) THEN 1 ELSE 0)
        failed == (rf # "skip" /\ ~WriteOK(rf)) \/ (re # "skip" /\ ~WriteOK(re))
    IN  IF m.stopped THEN "stopped"
        ELSE IF successCount = 0 /\ failed THEN "allfailed"
        ELSE "ok"

\* the results a child of the fan-out can report for this frame
ChildFileOutcomes(m, f) ==
    IF m.stopped \/ f.stopped THEN {"skip"} ELSE FileWriteOutcomes(f)

ChildEventsOutcomes(m, e, frame) ==
    IF m.stopped \/ e.stopped THEN {"skip"} ELSE EventsWriteOutcomes(e, frame)

\* ------------------------------------- the session seen as a FrameWriter
\* a session is the triple of its parts; kind says which of them exist
Parts(s) == [f |-> fs[s], e |-> es[s], m |-> mw[s]]

\* session.Context().Done(): MultiWriter's context derives from
\* context.Background(), the file session's from the supervisor's
SessionCtxDone(k, p) ==
    IF k = "multi" THEN p.m.cancelled ELSE FileCtxDone(p.f)

SessionIsStopped(k, p) ==
    IF k = "multi" THEN p.m.stopped ELSE p.f.stopped

\* MultiWriter.Close past its stopped check: mark stopped, cancel, Close()
\* on every child
MultiCloseBody(p) ==
    [f |-> FileClose(p.f), e |-> EventsClose(p.e),
     m |-> [p.m EXCEPT !.stopped = TRUE, !.cancelled = TRUE]]

\* session.Close(): FrameDataLogSession.Close or MultiWriter.Close
SessionClose(k, p) ==
    IF k = "multi"
    THEN IF p.m.stopped THEN p ELSE MultiCloseBody(p)
    ELSE [p EXCEPT !.f = FileClose(p.f)]

\* a fan-out that gives up on the frame when the remote sink fails: the
\* replay-file child is not offered a frame the remote sink refused
SessionWriteOutcomesAllOrNothing(k, p, frame) ==
    IF k = "multi"
    THEN {<<IF re \in {"full", "cancelled"} THEN "skip" ELSE rf, re>> :
             rf \in ChildFileOutcomes(p.m, p.f),
             re \in ChildEventsOutcomes(p.m, p.e, frame)}
    ELSE FileWriteOutcomes(p.f) \X {"skip"}

\* the pairs of child results session.WriteFrame can meet
SessionWriteOutcomes(k, p, frame) ==
    IF k = "multi"
    THEN ChildFileOutcomes(p.m, p.f) \X ChildEventsOutcomes(p.m, p.e, frame)
    ELSE FileWriteOutcomes(p.f) \X {"skip"}

\* session.WriteFrame(frame) under the child results r = <<rf, re>>
SessionWriteFrame(k, p, frame, r) ==
    [p EXCEPT !.f = FileWriteFrame(p.f, frame, r[1]),
              !.e = EventsWriteFrame(p.e, frame, r[2])]

\* the error value session.WriteFrame returns: TRUE when it is nil
SessionWriteNil(k, p, r) ==
    IF k = "multi" THEN MultiWriteResult(p.m, r[1], r[2]) = "ok"
    ELSE r[1] = "ok"

\* --------------------------------------------------------------- poller
NewPoller == [pc |-> "wait", idle |-> 0]

NoPoller == [pc |-> "none", idle |-> 0]

\* both GETs of the tick returned 200 with a body
DualFetchOK(ft) == ft.m # 0 /\ ft.bones

\* nevrcap FrameProcessor.ProcessFrame (library): fails on a missing body
ProcessFrameFails(ft) == ~DualFetchOK(ft)

\* the frame the poller builds from its two buffers after wg.Wait(): the
\* recorder poller builds one from whatever the buffers hold, the agent
\* poller only when the processor accepted both bodies
BuildsFrame(v, ft) == v = "recorder" \/ ~ProcessFrameFails(ft)

\* timeoutTimer.Reset after session.WriteFrame returned nil
TimerAfterWrite(idle, nil) == IF nil THEN 0 ELSE idle

\* what the two GETs of one tick can return: each body arrives (status 200)
\* or not; m is the match whose session body arrived, 0 for none
FetchOutcomes(srv) ==
    LET got == IF srv.up THEN BOOLEAN ELSE {FALSE}
    IN  {[m |-> IF so THEN srv.n ELSE 0, bones |-> bo] :
            so \in got, bo \in got}

\* the frame built from the buffers; id numbers the frames of the run
FrameOf(ft, id) == [id |-> id, m |-> ft.m, bones |-> ft.bones]

SetParts(s, p) ==
    /\ fs' = [fs EXCEPT ![s] = p.f]
    /\ es' = [es EXCEPT ![s] = p.e]
    /\ mw' = [mw EXCEPT ![s] = p.m]

\* the poller returns (ctx.Done or timeout): deferred session.Close()
PollReturn(s) ==
    /\ SetParts(s, SessionClose(meta[s].kind, Parts(s)))
    /\ pl' = [pl EXCEPT ![s].pc = "done"]
    /\ UNCHANGED <<call, sk, variant, events, sup, disc, registry, recorded, meta,
                   server, nframes, hist>>

\* case <-ctx.Done() of the poller's select
PollCancel(s) ==
    /\ sup # "exited"
    /\ pl[s].pc = "wait"
    /\ SessionCtxDone(meta[s].kind, Parts(s))
    /\ PollReturn(s)

\* case <-timeoutTimer.C of the poller's select
PollTimeout(s) ==
    /\ sup # "exited"
    /\ pl[s].pc = "wait"
    /\ pl[s].idle >= TimeoutTicks
    /\ PollReturn(s)

\* case <-ticker.C: reset the buffers, issue both GETs, wg.Wait(), context
\* check, frame construction, session.WriteFrame, timer reset.  The
\* context check is the one after wg.Wait(): a context cancelled during the
\* requests ends the poller there.
PollTick(s) ==
    /\ sup # "exited"
    /\ pl[s].pc = "wait"
    /\ ~SessionCtxDone(meta[s].kind, Parts(s))
    /\ \E ft \in FetchOutcomes(server[meta[s].url]) :
         LET k == meta[s].kind
             p == Parts(s)
             ticked == Min(pl[s].idle + 1, TimeoutTicks)
             frame == FrameOf(ft, nframes + 1)
         IN  IF ~BuildsFrame(variant, ft)
             THEN /\ pl' = [pl EXCEPT ![s].idle = ticked]
                  /\ UNCHANGED <<fs, es, mw, hist, nframes>>
             ELSE /\ nframes < MaxFrames
                  /\ nframes' = nframes + 1
                  /\ \E r \in SessionWriteOutcomes(k, p, frame) :
                       LET nil == SessionWriteNil(k, p, r)
                       IN  /\ SetParts(s, SessionWriteFrame(k, p, frame, r))
                           /\ pl' = [pl EXCEPT ![s].idle =
                                        TimerAfterWrite(ticked, nil)]
                           /\ hist' = [hist EXCEPT
                                ![s].acc = IF r[1] = "ok"
                                           THEN Append(@, frame) ELSE @]
    /\ UNCHANGED <<call, sk, variant, events, sup, disc, registry, recorded, meta, server>>

\* ------------------------------------------------------------- sessions
NoMeta == [kind |-> "none", m |-> 0, url |-> 0]

\* fw.sessionID: the session UUID the probe returned
SessionUUID(s) == MatchUUID(meta[s].m)

\* no map entry and no task refers to the session any more
Gone(s) ==
    /\ meta[s].kind # "none"
    /\ \A u \in BaseURLs : registry[u] # s
    /\ pl[s].pc = "done"
    /\ fs[s].pf # "run"
    /\ es[s].run # "run"

FreeSlots == {s \in Sids : meta[s].kind = "none" \/ Gone(s)}

\* ------------------------------------------------------ drain tasks
\* ProcessFrames: one iteration taking the frame branch of the select
DrainStep(s) ==
    /\ sup # "exited"
    /\ fs[s].pf = "run"
    /\ fs[s].q # <<>>
    /\ fs' = [fs EXCEPT ![s] = DrainFrame(fs[s], SessionUUID(s))]
    /\ hist' = [hist EXCEPT ![s].drift =
                    @ \/ DrainSeesDrift(fs[s], SessionUUID(s))]
    /\ UNCHANGED <<call, sk, variant, events, sup, disc, registry, recorded, meta, es, mw,
                   pl, server, nframes>>

\* ProcessFrames: the ctx.Done branch of the select
DrainCancel(s) ==
    /\ sup # "exited"
    /\ fs[s].pf = "run"
    /\ FileCtxDone(fs[s])
    /\ fs' = [fs EXCEPT ![s] = DrainFinish(fs[s])]
    /\ UNCHANGED <<call, sk, variant, events, sup, disc, registry, recorded, meta, es, mw,
                   pl, server, nframes, hist>>

\* EventsAPIWriter.run: send one queued frame
EventsSend(s) ==
    /\ sup # "exited"
    /\ es[s].run = "run"
    /\ es[s].q # <<>>
    /\ es' = [es EXCEPT ![s].q = Tail(@),
                        ![s].sent = Append(@, Head(es[s].q))]
    /\ UNCHANGED <<call, sk, variant, events, sup, disc, registry, recorded, meta, fs, mw,
                   pl, server, nframes, hist>>

\* EventsAPIWriter.run: the ctx.Done branch
EventsStop(s) ==
    /\ sup # "exited"
    /\ es[s].run = "run"
    /\ es[s].cancelled
    /\ es' = [es EXCEPT ![s].run = "done"]
    /\ UNCHANGED <<call, sk, variant, events, sup, disc, registry, recorded, meta, fs, mw,
                   pl, server, nframes, hist>>

\* ------------------------------------------------------------ discovery
NoHist == [acc |-> <<>>, drift |-> FALSE]

\* GetSessionMeta: the match whose session UUID the probe returns, 0 for
\* "no match" (404, connection refused, error, empty sessionid)
ProbeMatch(srv) == IF srv.up THEN srv.n ELSE 0

\* the sinks startAgent / start instantiate for a new session
SessionKind(v, ev) == IF v = "agent" /\ ev THEN "multi" ELSE "file"

\* the registry lookup of one target: does it go on to probe the endpoint
\* in this visit?  start() continues after the delete, startAgent() falls
\* through to the probe
ProbesAfterEvict(v) == v = "agent"

\* a lookup that never removes an entry
VisitEvictsNever(u) == FALSE

\* the visit finds an entry whose session reports stopped: delete it
VisitEvicts(u) ==
    /\ registry[u] # 0
    /\ SessionIsStopped(meta[registry[u]].kind, Parts(registry[u]))

\* a visit that probes whatever the registry holds
VisitProbesAlways(u) == TRUE

\* the visit reaches GetSessionMeta: no entry, or the entry was deleted
\* and the code does not continue with the next target
VisitProbes(u) ==
    registry[u] = 0 \/ (VisitEvicts(u) /\ ProbesAfterEvict(variant))

\* the visit creates a session: the probe returned a session UUID
VisitCreates(u) == VisitProbes(u) /\ ProbeMatch(server[u]) # 0

\* case <-ctx.Done() at the top of the scan loop: return
DiscReturn ==
    /\ sup # "exited"
    /\ disc.pc = "top"
    /\ SupDone
    /\ disc' = [pc |-> "done", i |-> 1]
    /\ UNCHANGED <<call, sk, variant, events, sup, registry, recorded, meta, fs, es, mw,
                   pl, server, nframes, hist>>

\* break OuterLoop, then session.Close() on every session of the map: the
\* context check before a target (reached from the top through the
\* cycleTicker case) or the select after the cycle
DiscBreak ==
    /\ sup # "exited"
    /\ disc.pc \in {"top", "scan", "sleep"}
    /\ SupDone
    /\ LET reg == {registry[u] : u \in BaseURLs} \ {0}
           cl(t) == SessionClose(meta[t].kind, Parts(t))
       IN  /\ fs' = [t \in Sids |-> IF t \in reg THEN cl(t).f ELSE fs[t]]
           /\ es' = [t \in Sids |-> IF t \in reg THEN cl(t).e ELSE es[t]]
           /\ mw' = [t \in Sids |-> IF t \in reg THEN cl(t).m ELSE mw[t]]
    /\ disc' = [pc |-> "done", i |-> 1]
    /\ UNCHANGED <<call, sk, variant, events, sup, registry, recorded, meta, pl, server,
                   nframes, hist>>

\* one target of the scan: registry lookup, eviction, probe, new session;
\* the first target follows case <-cycleTicker.C at the top of the loop
DiscVisit ==
    /\ sup # "exited"
    /\ disc.pc \in {"top", "scan"}
    /\ ~SupDone
    /\ LET u == Targets[disc.i]
           old == registry[u]
           evict == VisitEvicts(u)
           m == ProbeMatch(server[u])
           creates == VisitCreates(u)
           free == IF evict THEN FreeSlots \cup
                      (IF pl[old].pc = "done" /\ fs[old].pf # "run"
                          /\ es[old].run # "run" THEN {old} ELSE {})
                   ELSE FreeSlots
       IN  /\ creates => free # {}
           /\ IF creates
              THEN LET s == CHOOSE x \in free : \A y \in free : x <= y
                   IN
                   /\ registry' = [registry EXCEPT ![u] = s]
                   /\ recorded' = [recorded EXCEPT ![u] = @ \cup {m}]
                   /\ meta' = [meta EXCEPT ![s] =
                        [kind |-> SessionKind(variant, events), m |-> m,
                         url |-> u]]
                   /\ fs' = [fs EXCEPT ![s] = NewFrameDataLogSession]
                   /\ es' = [es EXCEPT ![s] =
                        IF SessionKind(variant, events) = "multi"
                        THEN NewEventsAPIWriter ELSE NoEventsWriter]
                   /\ mw' = [mw EXCEPT ![s] =
                        IF SessionKind(variant, events) = "multi"
                        THEN NewMultiWriter ELSE NoMultiWriter]
                   /\ pl' = [pl EXCEPT ![s] = NewPoller]
                   /\ hist' = [hist EXCEPT ![s] = NoHist]
              ELSE /\ registry' = [registry EXCEPT ![u] =
                                      IF evict THEN 0 ELSE old]
                   /\ UNCHANGED <<recorded, meta, fs, es, mw, pl, hist>>
    /\ disc' = IF disc.i < Len(Targets)
               THEN [pc |-> "scan", i |-> disc.i + 1]
               ELSE [pc |-> "sleep", i |-> 1]
    /\ UNCHANGED <<call, sk, variant, events, sup, server, nframes>>

\* case <-time.After(3 * time.Second) between two cycles
DiscSleep ==
    /\ sup # "exited"
    /\ disc.pc = "sleep"
    /\ disc' = [pc |-> "top", i |-> 1]
    /\ UNCHANGED <<call, sk, variant, events, sup, registry, recorded, meta, fs, es, mw,
                   pl, server, nframes, hist>>

\* ----------------------------------------------------------- supervisor
\* case <-interrupt: cancel()
SupCancel ==
    /\ sup = "running"
    /\ sup' = "cancelled"
    /\ UNCHANGED <<call, sk, variant, events, disc, registry, recorded, meta, fs, es, mw,
                   pl, server, nframes, hist>>

\* every drain task whose context is done has finished its cleanup; a
\* task whose context is not done gets no reprieve
DrainsSettled == \A s \in Sids : fs[s].pf = "run" => ~FileCtxDone(fs[s])

\* the 2 s grace period after cancel() is over and main returns; the grace
\* period outlasts the cleanup of the drain tasks, which wait for nothing
SupExit ==
    /\ sup = "cancelled"
    /\ DrainsSettled
    /\ sup' = "exited"
    /\ UNCHANGED <<call, sk, variant, events, disc, registry, recorded, meta, fs, es, mw,
                   pl, server, nframes, hist>>

\* ---------------------------------------------------------- game server
\* the game server starts its next match; consecutive matches differ in
\* their session UUID
ServerNewMatch(u) ==
    /\ sup # "exited"
    /\ server[u].n < MaxMatches
    /\ server' = [server EXCEPT ![u] = [up |-> TRUE, n |-> server[u].n + 1]]
    /\ UNCHANGED <<call, sk, variant, events, sup, disc, registry, recorded, meta, fs, es,
                   mw, pl, nframes, hist>>

\* the game server ends the match or stops answering (404, refused
\* connection, accepted connection without response)
ServerDown(u) ==
    /\ sup # "exited"
    /\ server[u].up
    /\ server' = [server EXCEPT ![u].up = FALSE]
    /\ UNCHANGED <<call, sk, variant, events, sup, disc, registry, recorded, meta, fs, es,
                   mw, pl, nframes, hist>>

\* ------------------------------------ a FrameWriter driven call by call
\* One writer as startAgent builds it (a replay-file session alone, or a
\* MultiWriter over a replay-file session and a remote sink), with the
\* calls of the FrameWriter interface made one at a time by its users.
MaxCalls == 3           \* WriteFrame calls made on the writer

\* the tasks that call Close() on a session: the poller's deferred close
\* and the discovery loop's shutdown close
Closers == {"poller", "discovery"}

\* the session UUID the writer was created for
SinkUUID == MatchUUID(1)

NoSinks ==
    [kind |-> "none", remote |-> "none",
     f |-> NoFileSession, e |-> NoEventsWriter, m |-> NoMultiWriter,
     calls |-> 0, last |-> "none", r |-> <<"skip", "skip">>,
     cpc |-> [t \in Closers |-> "idle"], effects |-> 0, io |-> "none",
     net |-> "none"]

\* the writers startAgent can build: remote is the EventsAPIWriter or the
\* WebSocketWriter
NewSinks(kind, remote) ==
    [NoSinks EXCEPT
        !.kind = kind, !.remote = remote,
        !.f = NewFrameDataLogSession,
        !.e = IF kind = "multi" THEN NewEventsAPIWriter ELSE NoEventsWriter,
        !.m = IF kind = "multi" THEN NewMultiWriter ELSE NoMultiWriter]

SinkParts == [f |-> sk.f, e |-> sk.e, m |-> sk.m]

SinkSet(p) == [sk EXCEPT !.f = p.f, !.e = p.e, !.m = p.m]

\* a call of session.WriteFrame(frame); last is the returned error value,
\* r the results of the children
SinkWriteFrame ==
    /\ sk.kind # "none"
    /\ sk.calls < MaxCalls
    /\ \E m \in {1, 2} :
         LET frame == [id |-> sk.calls + 1, m |-> m, bones |-> TRUE]
         IN  \E r \in SessionWriteOutcomes(sk.kind, SinkParts, frame) :
               sk' = [SinkSet(SessionWriteFrame(sk.kind, SinkParts, frame, r))
                        EXCEPT !.calls = sk.calls + 1,
                               !.r = r,
                               !.last = IF SessionWriteNil(sk.kind, SinkParts, r)
                                        THEN "nil" ELSE "err"]
    /\ UNCHANGED <<pipeline, call>>

\* ProcessFrames: one iteration taking the frame branch
SinkDrain ==
    /\ sk.f.pf = "run"
    /\ sk.f.q # <<>>
    /\ sk' = [sk EXCEPT !.f = DrainFrame(sk.f, SinkUUID)]
    /\ UNCHANGED <<pipeline, call>>

\* ProcessFrames: the ctx.Done branch
SinkDrainCancel ==
    /\ sk.f.pf = "run"
    /\ FileCtxDone(sk.f)
    /\ sk' = [sk EXCEPT !.f = DrainFinish(sk.f)]
    /\ UNCHANGED <<pipeline, call>>

\* ProcessFrames: os.Create of the output file fails
SinkCreateFails ==
    /\ NothingDrained(sk.f)
    /\ sk.io = "none"
    /\ sk' = [sk EXCEPT !.f = ProcessFramesCreateFails(sk.f), !.io = "create"]
    /\ UNCHANGED <<pipeline, call>>

\* ProcessFrames: the write of a full chunk to the file fails
SinkWriteFails ==
    /\ sk.f.pf = "run"
    /\ DrainWritesChunk(sk.f, SinkUUID)
    /\ sk' = [sk EXCEPT !.f = DrainWriteFails(sk.f), !.io = "write"]
    /\ UNCHANGED <<pipeline, call>>

\* the remote sink's sender task takes one queued frame
SinkSend ==
    /\ sk.e.run = "run"
    /\ sk.e.q # <<>>
    /\ sk' = [sk EXCEPT !.e.q = Tail(@), !.e.sent = Append(@, Head(sk.e.q))]
    /\ UNCHANGED <<pipeline, call>>

\* the remote sink's sender task ends on its context
SinkSendStop ==
    /\ sk.e.run = "run"
    /\ sk.e.cancelled
    /\ sk' = [sk EXCEPT !.e.run = "done"]
    /\ UNCHANGED <<pipeline, call>>

\* WebSocketWriter.readLoop: a read error ends the loop, the deferred
\* w.Close() stops the sink on its own
SinkRemoteLost ==
    /\ sk.remote = "ws"
    /\ ~sk.e.stopped
    /\ sk' = [sk EXCEPT !.e = EventsClose(sk.e), !.net = "read"]
    /\ UNCHANGED <<pipeline, call>>

\* WebSocketWriter.writeLoop: conn.WriteMessage fails, for the ping (no
\* frame taken) or for the frame just taken from the queue; the loop
\* returns, its deferred function stops the ticker and logs
SinkRemoteWriteFails ==
    /\ sk.remote = "ws"
    /\ sk.e.run = "run"
    /\ \E ping \in BOOLEAN :
         /\ ~ping => sk.e.q # <<>>
         /\ sk' = [sk EXCEPT !.e.run = "done",
                             !.e.q = IF ping THEN @ ELSE Tail(@),
                             !.net = "write"]
    /\ UNCHANGED <<pipeline, call>>

\* FrameDataLogSession.Close by task t: cancel, then test and set of
\* stopped under the session's lock
SinkCloseFile(t) ==
    /\ sk.kind = "file"
    /\ sk.cpc[t] = "idle"
    /\ sk' = [sk EXCEPT !.f = FileClose(sk.f),
                        !.cpc[t] = "done",
                        !.effects = IF sk.f.stopped THEN @ ELSE @ + 1]
    /\ UNCHANGED <<pipeline, call>>

\* MultiWriter.Close by task t, the test: if mw.stopped { return }.  No lock
\* covers the test and the assignment that follows it.
SinkCloseCheck(t) ==
    /\ sk.kind = "multi"
    /\ sk.cpc[t] = "idle"
    /\ sk' = [sk EXCEPT !.cpc[t] = IF sk.m.stopped THEN "done" ELSE "body"]
    /\ UNCHANGED <<pipeline, call>>

\* MultiWriter.Close by task t, past the test: mw.stopped = true,
\* mw.cancel(), Close() on every child, "Multi writer closed"
SinkCloseBody(t) ==
    /\ sk.cpc[t] = "body"
    /\ sk' = [SinkSet(MultiCloseBody(SinkParts))
                EXCEPT !.cpc[t] = "done", !.effects = sk.effects + 1]
    /\ UNCHANGED <<pipeline, call>>

\* ------------------------------------------------- Nakama stream sink
\* A StreamWriter over its NakamaWebSocketClient, as startAgent builds it
\* for the "stream" format; frames are named by their number.
MaxSenders == 2         \* StreamPresenceEvents the peer sends

Senders == 1..MaxSenders

\* NewStreamWriter, NewStreamClient and a Connect() that succeeded
NewStreamWriter ==
    [kind |-> "stream", q |-> <<>>, stopped |-> FALSE, cancelled |-> FALSE,
     conn |-> "open", closing |-> FALSE, rin |-> "run",
     snd |-> [t \in Senders |-> [st |-> "off", fr |-> 0]],
     wire |-> <<>>, calls |-> 0, last |-> "none", dropped |-> 0]

\* NakamaWebSocketClient.SendBytes: queue the payload, or on a full queue
\* start Close() in a goroutine and return ErrSessionQueueFull
SendBytes(c, id) ==
    IF Len(c.q) < QueueCap
    THEN [c EXCEPT !.q = Append(@, id)]
    ELSE [c EXCEPT !.closing = TRUE, !.dropped = id]

\* StreamWriter.WriteFrame: the result of Send is not looked at
StreamWriteResult(c, id) ==
    IF c.stopped THEN [c EXCEPT !.last = "err"]
    ELSE [SendBytes(c, id) EXCEPT !.last = "nil"]

\* NakamaWebSocketClient.Close
ClientClose(c) == [c EXCEPT !.cancelled = TRUE, !.conn = "closed"]

\* StreamWriter.Close
StreamWriterClose(c) ==
    IF c.stopped THEN c ELSE [ClientClose(c) EXCEPT !.stopped = TRUE]

\* a call of StreamWriter.WriteFrame
StreamWriteFrame ==
    /\ sk.calls < MaxCalls
    /\ sk' = [StreamWriteResult(sk, sk.calls + 1) EXCEPT !.calls = sk.calls + 1]
    /\ UNCHANGED <<pipeline, call>>

\* processIncoming reads a StreamPresenceEvent: go sc.processOutgoing()
StreamPresence ==
    /\ sk.rin = "run"
    /\ sk.conn = "open"
    /\ \E t \in Senders :
         /\ sk.snd[t].st = "off"
         /\ \A u \in Senders : u < t => sk.snd[u].st # "off"
         /\ sk' = [sk EXCEPT !.snd[t].st = "idle"]
    /\ UNCHANGED <<pipeline, call>>

\* processOutgoing of task t: case payload := <-sc.outgoingCh
StreamTake(t) ==
    /\ sk.snd[t].st = "idle"
    /\ sk.q # <<>>
    /\ sk' = [sk EXCEPT !.snd[t] = [st |-> "hold", fr |-> Head(sk.q)],
                        !.q = Tail(@)]
    /\ UNCHANGED <<pipeline, call>>

\* processOutgoing of task t: conn.WriteMessage; an error is logged and
\* the loop continues
StreamSend(t) ==
    /\ sk.snd[t].st = "hold"
    /\ sk' = [sk EXCEPT !.snd[t] = [st |-> "idle", fr |-> 0],
                        !.wire = IF sk.conn = "open"
                                 THEN Append(@, sk.snd[t].fr) ELSE @]
    /\ UNCHANGED <<pipeline, call>>

\* processOutgoing of task t: case <-sc.ctx.Done()
StreamSenderStop(t) ==
    /\ sk.snd[t].st = "idle"
    /\ sk.cancelled
    /\ sk' = [sk EXCEPT !.snd[t].st = "done"]
    /\ UNCHANGED <<pipeline, call>>

\* the goroutine SendBytes started on a full queue: s.Close()
StreamOverflowClose ==
    /\ sk.closing
    /\ sk' = [ClientClose(sk) EXCEPT !.closing = FALSE]
    /\ UNCHANGED <<pipeline, call>>

\* a call of StreamWriter.Close by the session's user
StreamClose ==
    /\ ~sk.stopped
    /\ sk' = StreamWriterClose(sk)
    /\ UNCHANGED <<pipeline, call>>

\* processIncoming returns (context done or read error): the deferred
\* sc.conn.Close()
StreamReadEnds ==
    /\ sk.rin = "run"
    /\ sk' = [sk EXCEPT !.rin = "done", !.conn = "closed"]
    /\ UNCHANGED <<pipeline, call>>

\* ------------------------------------------------------------- probe
MaxProbes == 3          \* probes of one endpoint

\* no function applied yet
NoCall == [fn |-> "none", arg |-> <<>>, ret |-> <<>>, n |-> 0]

\* the status codes a probe is answered with
Statuses == {200, 404, 500, 503}

\* what client.Get and the body can yield: a refused connection, another
\* transport error (timeout), or a status with a body that carries a
\* sessionid, carries an empty one, is no JSON, or cannot be read
Responses ==
    {[kind |-> "refused", code |-> 0, body |-> ""],
     [kind |-> "timeout", code |-> 0, body |-> ""]}
    \cup [kind : {"status"}, code : Statuses,
          body : {"uuid", "nouuid", "garbage", "readerr"}]

Inactive == [uuid |-> "", err |-> "nil"]

ProbeError(e) == [uuid |-> "", err |-> e]

\* GetSessionMeta of the generation v: the SessionMeta (its SessionUUID)
\* and the error returned for a response
GetSessionMeta(v, resp) ==
    IF resp.kind = "refused"
    THEN IF v = "agent" THEN Inactive ELSE ProbeError("error")
    ELSE IF resp.kind # "status" THEN ProbeError("error")
    ELSE IF resp.code = 404 THEN Inactive
    ELSE IF resp.code = 500
    THEN IF v = "agent" THEN ProbeError("disabled") ELSE ProbeError("error")
    ELSE IF resp.code # 200 THEN ProbeError("error")
    ELSE IF resp.body \in {"readerr", "garbage", "nouuid"}
    THEN ProbeError("error")
    ELSE [uuid |-> "A", err |-> "nil"]

\* ------------------------------------------- close of the replay file
\* the writers of a replay file: the agent's ProcessFrames with its zip
\* writer, the recorder's zip strategy and its zstd strategy
FileWriters == {"agent-zip", "recorder-zip", "recorder-zstd"}

\* the stage calls made on the way out of ProcessFrames, in program order.
\* agent: the write of the remaining buffer, then the deferred function
\* (zw.Flush and zf.Sync, zw.Close, zf.Close).  recorder: writer.Flush,
\* then writer.Close (zw.Close or encoder.Close, file.Close).
\* zip.Writer.Close closes the entry's compressor, then writes the
\* directory; the zstd encoder is compressor and container in one.
CloseStages(w) ==
    IF w = "agent-zip"
    THEN <<"flush", "sync", "compressor", "container", "close">>
    ELSE IF w = "recorder-zip"
    THEN <<"flush", "compressor", "container", "close">>
    ELSE <<"flush", "container", "close">>

\* a stage whose failure ends the close: the recorder's ProcessFrames
\* returns when writer.Flush fails, before writer.Close
CloseAborts(w, op) == w # "agent-zip" /\ op = "flush"

\* the outcomes of a stage: the flush writes nothing, and cannot fail,
\* when the chunk buffer is empty
StageOutcomes(arg, op) ==
    IF op = "flush" /\ ~arg.buffered THEN {TRUE} ELSE BOOLEAN

\* the close ran to its end
CloseOver ==
    call.fn = "Close" /\ call.n > Len(CloseStages(call.arg.w))

\* the next stage of the close runs, with or without an error
CloseStep ==
    /\ call.fn = "Close"
    /\ ~CloseOver
    /\ LET op == CloseStages(call.arg.w)[call.n]
       IN  \E ok \in StageOutcomes(call.arg, op) :
             call' = [call EXCEPT
                        !.ret = Append(@, [op |-> op, ok |-> ok]),
                        !.n = IF ~ok /\ CloseAborts(call.arg.w, op)
                              THEN Len(CloseStages(call.arg.w)) + 1
                              ELSE @ + 1]
    /\ UNCHANGED <<pipeline, sk>>

\* ------------------------------------------ replay file, write and read
\* A file is a sequence of bytes; the bytes that matter are the tab, the
\* newline, the carriage return, the digits of a timestamp and one other
\* payload byte.
MaxRecords == 2         \* frames written to one file
MaxPayload == 2         \* bytes of a session or bones payload
MaxScanTokenSize == 7   \* bufio.MaxScanTokenSize, scaled to MaxPayload

TAB == "TAB"

NL == "NL"

CR == "CR"

\* payloads free of tab and newline
PayloadBytes == {"a", CR}

Payloads == UNION {[1..n -> PayloadBytes] : n \in 0..MaxPayload}

\* a time: its millisecond and what lies below the millisecond
Times == [ms : 0..1, sub : 0..1]

FrameDatas == [ts : Times, session : Payloads, bones : Payloads]

\* Timestamp.UTC().Format("2006/01/02 15:04:05.000"): the digits down to
\* the millisecond
FormatTime(t) == <<IF t.ms = 0 THEN "0" ELSE "1">>

\* time.Parse of the same layout: a time on the millisecond, or no time
ParseTime(tok) ==
    IF tok = <<"0">> THEN [ok |-> TRUE, t |-> [ms |-> 0, sub |-> 0]]
    ELSE IF tok = <<"1">> THEN [ok |-> TRUE, t |-> [ms |-> 1, sub |-> 0]]
    ELSE [ok |-> FALSE, t |-> [ms |-> 0, sub |-> 0]]

\* EchoReplayWriterStrategy.WriteFrame: the record appended to the buffer
EncodeFrame(fr) ==
    FormatTime(fr.ts) \o <<TAB>> \o fr.session \o <<TAB>> \o fr.bones \o <<NL>>

\* the pieces of a byte sequence between the separators sep
RECURSIVE SplitAt(_, _)
SplitAt(bytes, sep) ==
    IF \A i \in 1..Len(bytes) : bytes[i] # sep THEN <<bytes>>
    ELSE LET k == CHOOSE i \in 1..Len(bytes) :
                    bytes[i] = sep /\ \A j \in 1..(i - 1) : bytes[j] # sep
         IN  <<SubSeq(bytes, 1, k - 1)>>
             \o SplitAt(SubSeq(bytes, k + 1, Len(bytes)), sep)

\* bufio.ScanLines: a carriage return at the end of a line is dropped
DropCR(line) ==
    IF line # <<>> /\ line[Len(line)] = CR
    THEN SubSeq(line, 1, Len(line) - 1) ELSE line

\* the lines bufio.Scanner yields for the data: the text after the last
\* newline is a line only when it is not empty
ScanLines(data) ==
    LET parts == SplitAt(data, NL)
    IN  IF parts[Len(parts)] = <<>>
        THEN SubSeq(parts, 1, Len(parts) - 1) ELSE parts

\* EchoReplayReader.ReadFrame on one line of the scanner: a line of
\* MaxScanTokenSize bytes or more is a scanner error
ReadFrame(line) ==
    LET parts == SplitAt(DropCR(line), TAB)
        bad == [ok |-> FALSE, fr |-> <<>>]
    IN  IF Len(line) >= MaxScanTokenSize THEN bad
        ELSE IF Len(parts) # 3 THEN bad
        ELSE IF ~ParseTime(parts[1]).ok THEN bad
        ELSE [ok |-> TRUE,
              fr |-> [ts |-> ParseTime(parts[1]).t,
                      session |-> parts[2], bones |-> parts[3]]]

\* EchoReplayReader.ReadAllFrames: the frames up to the end of the data,
\* or the first error
ReadAllFrames(data) ==
    LET lines == ScanLines(data)
    IN  IF \E i \in 1..Len(lines) : ~ReadFrame(lines[i]).ok
        THEN [ok |-> FALSE, frames |-> <<>>]
        ELSE [ok |-> TRUE,
              frames |-> [i \in 1..Len(lines) |-> ReadFrame(lines[i]).fr]]

\* the next frame of the input is written to the file
FileWriteRecord ==
    /\ call.fn = "write"
    /\ call.n < Len(call.arg)
    /\ call' = [call EXCEPT !.n = @ + 1,
                            !.ret.data = @ \o EncodeFrame(call.arg[call.n + 1])]
    /\ UNCHANGED <<pipeline, sk>>

\* the closed file is reopened and read to its end
FileReadAll ==
    /\ call.fn = "write"
    /\ call.n = Len(call.arg)
    /\ call' = [call EXCEPT !.fn = "read",
                            !.ret.read = ReadAllFrames(call.ret.data)]
    /\ UNCHANGED <<pipeline, sk>>

\* ------------------------------------------------------ port arguments
\* The port part of a host:port argument is a sequence of characters.
MaxItems == 2           \* comma-separated items of one argument
MaxSpan == 2            \* endPort - startPort of a range that is expanded
MaxPort == 65535        \* the highest port parsePortRange accepts

Digits == <<"0", "1", "2", "3", "4", "5", "6", "7", "8", "9">>

DigitChars == {Digits[i] : i \in 1..10}

DigitValue(c) == (CHOOSE i \in 1..10 : Digits[i] = c) - 1

\* strconv.Itoa of a natural number
RECURSIVE Itoa(_)
Itoa(n) ==
    IF n < 10 THEN <<Digits[n + 1]>>
    ELSE Itoa(n \div 10) \o <<Digits[(n % 10) + 1]>>

\* the value of a sequence of digits
RECURSIVE DecimalValue(_)
DecimalValue(ds) ==
    IF ds = <<>> THEN 0
    ELSE DecimalValue(SubSeq(ds, 1, Len(ds) - 1)) * 10
         + DigitValue(ds[Len(ds)])

\* strconv.Atoi: an optional sign, then one digit or more
Atoi(str) ==
    LET signed == str # <<>> /\ str[1] \in {"+", "-"}
        ds == IF signed THEN Tail(str) ELSE str
    IN  IF ds = <<>> \/ \E i \in 1..Len(ds) : ds[i] \notin DigitChars
        THEN [ok |-> FALSE, v |-> 0]
        ELSE [ok |-> TRUE,
              v |-> IF signed /\ str[1] = "-"
                    THEN 0 - DecimalValue(ds) ELSE DecimalValue(ds)]

\* strings.TrimSpace
RECURSIVE TrimSpace(_)
TrimSpace(str) ==
    IF str = <<>> THEN str
    ELSE IF str[1] = " " THEN TrimSpace(Tail(str))
    ELSE IF str[Len(str)] = " " THEN TrimSpace(SubSeq(str, 1, Len(str) - 1))
    ELSE str

\* strings.SplitN(str, "-", 2): cut at the first dash only
SplitDash(str) ==
    IF \A i \in 1..Len(str) : str[i] # "-" THEN <<str>>
    ELSE LET k == CHOOSE i \in 1..Len(str) :
                    str[i] = "-" /\ \A j \in 1..(i - 1) : str[j] # "-"
         IN  <<SubSeq(str, 1, k - 1), SubSeq(str, k + 1, Len(str))>>

\* a range whose expansion leaves out endPort
RangePortsHalfOpen(startPort, endPort) ==
    [i \in 1..(endPort - startPort) |-> startPort + i - 1]

\* for i := startPort; i <= endPort; i++ { ports = append(ports, i) }
RangePorts(startPort, endPort) ==
    [i \in 1..(endPort - startPort + 1) |-> startPort + i - 1]

ParseError == [err |-> TRUE, ports |-> <<>>]

\* the check at the end of each iteration, over all ports collected so far
PortsValid(ports) ==
    \A i \in 1..Len(ports) : ~(ports[i] < 0 \/ ports[i] > MaxPort)

\* one iteration of parsePortRange's loop, for a rangeStr that is not empty
ParseRangeStr(rangeStr, ports) ==
    LET parts == SplitDash(rangeStr)
        added ==
            IF Len(parts) = 1
            THEN IF ~Atoi(parts[1]).ok THEN ParseError
                 ELSE [err |-> FALSE,
                       ports |-> Append(ports, Atoi(parts[1]).v)]
            ELSE IF ~Atoi(parts[1]).ok \/ ~Atoi(parts[2]).ok THEN ParseError
            ELSE IF Atoi(parts[1]).v > Atoi(parts[2]).v THEN ParseError
            ELSE [err |-> FALSE,
                  ports |-> ports \o RangePorts(Atoi(parts[1]).v,
                                                Atoi(parts[2]).v)]
    IN  IF added.err THEN ParseError
        ELSE IF ~PortsValid(added.ports) THEN ParseError
        ELSE added

\* parsePortRange's loop over the comma-separated parts
RECURSIVE ParseRanges(_, _)
ParseRanges(portRanges, ports) ==
    IF portRanges = <<>> THEN [err |-> FALSE, ports |-> ports]
    ELSE LET rangeStr == TrimSpace(Head(portRanges))
         IN  IF rangeStr = <<>> THEN ParseRanges(Tail(portRanges), ports)
             ELSE LET step == ParseRangeStr(rangeStr, ports)
                  IN  IF step.err THEN ParseError
                      ELSE ParseRanges(Tail(portRanges), step.ports)

parsePortRange(port) == ParseRanges(SplitAt(port, ","), <<>>)

\* the port numbers written in the arguments
PortValues == {0, 1, 2, MaxPort, MaxPort + 1}

\* the items of an argument: a port, a port with blanks around it, a range
\* (short, or with startPort above endPort), nothing, or a text that is
\* neither a port nor a range
BadTexts ==
    {<<"x">>, <<"1", "x">>, <<"1", "-">>, <<"-", "2">>, <<"1", "-", "x">>,
     <<"1", "-", "2", "-", "2">>}

Items ==
    [k : {"port", "padded"}, a : PortValues, b : {0}, s : {<<>>}]
    \cup {it \in [k : {"range"}, a : PortValues, b : PortValues, s : {<<>>}] :
            it.a > it.b \/ it.b - it.a <= MaxSpan}
    \cup [k : {"empty"}, a : {0}, b : {0}, s : {<<>>}]
    \cup [k : {"bad"}, a : {0}, b : {0}, s : BadTexts]

\* an item as it is typed
ItemText(it) ==
    IF it.k = "port" THEN Itoa(it.a)
    ELSE IF it.k = "padded" THEN <<" ">> \o Itoa(it.a) \o <<" ">>
    ELSE IF it.k = "range" THEN Itoa(it.a) \o <<"-">> \o Itoa(it.b)
    ELSE it.s

\* the items joined by commas
RECURSIVE ArgumentText(_)
ArgumentText(items) ==
    IF items = <<>> THEN <<>>
    ELSE IF Len(items) = 1 THEN ItemText(items[1])
    ELSE ItemText(items[1]) \o <<",">> \o ArgumentText(Tail(items))

\* parseHostPort hands the port part of the argument to parsePortRange
ParsePorts ==
    /\ call.fn = "parsePortRange"
    /\ call.n = 0
    /\ call' = [call EXCEPT !.ret = parsePortRange(call.arg.text), !.n = 1]
    /\ UNCHANGED <<pipeline, sk>>

\* ------------------------------------------------------- target set
\* The targets are a Go map from host to port list, filled from the
\* arguments in order and ranged over by every scan cycle.  The order of a
\* range over a map is not specified: each cycle may take the hosts in any
\* order.
MaxArgs == 2            \* host:port arguments on the command line
MaxCycles == 2          \* scan cycles of the discovery loop
MaxPortList == 2        \* ports named by one argument

Hosts == {"h1", "h2"}

PortLists == UNION {[1..n -> 1..2] : n \in 1..MaxPortList}

\* what parseHostPort returns for an argument
HostPorts == [host : Hosts, ports : PortLists]

\* targets[host] = ports
SetTarget(targets, hp) ==
    [h \in DOMAIN targets \cup {hp.host} |->
        IF h = hp.host THEN hp.ports ELSE targets[h]]

\* the base URLs of one host, in the order of its port list
HostEndpoints(host, ports) == [i \in 1..Len(ports) |-> <<host, ports[i]>>]

\* runAgent: the next argument is parsed and stored
TargetAdd ==
    /\ call.fn = "targets"
    /\ call.n < Len(call.arg)
    /\ call' = [call EXCEPT
                  !.n = @ + 1,
                  !.ret.targets = SetTarget(@, call.arg[call.n + 1])]
    /\ UNCHANGED <<pipeline, sk>>

\* all arguments are stored and the discovery loop runs
Scanning == call.fn = "targets" /\ call.n = Len(call.arg)

\* for host, ports := range targets: the range yields a host it has not
\* yielded in this cycle, and the inner loop visits its ports in order
ScanHost ==
    /\ Scanning
    /\ Len(call.ret.cycles) < MaxCycles
    /\ \E host \in DOMAIN call.ret.targets \ call.ret.seen :
         call' = [call EXCEPT
                    !.ret.seen = @ \cup {host},
                    !.ret.visits = @ \o HostEndpoints(host,
                                                     call.ret.targets[host])]
    /\ UNCHANGED <<pipeline, sk>>

\* the range is exhausted: the cycle ends, the loop waits for the ticker
ScanCycleEnd ==
    /\ Scanning
    /\ Len(call.ret.cycles) < MaxCycles
    /\ call.ret.seen = DOMAIN call.ret.targets
    /\ call' = [call EXCEPT
                  !.ret.cycles = Append(@, call.ret.visits),
                  !.ret.visits = <<>>,
                  !.ret.seen = {}]
    /\ UNCHANGED <<pipeline, sk>>

\* -------------------------------------------------- polling frequency
MaxFrequency == 40      \* the everyday frequencies tried, in Hz
Second == 1000000000    \* time.Second, in nanoseconds

\* the values the frequency flag is given: the everyday ones, none and
\* negative ones, and those around one per nanosecond
Frequencies == (-2..MaxFrequency) \cup {1000, Second, Second + 1}

\* ValidateAgentConfig (agent) and the test in main (recorder)
FrequencyRejected(frequency) == frequency <= 0

\* interval := time.Second / time.Duration(frequency): integer division
Interval(frequency) == Second \div frequency

\* the configuration is validated before the discovery loop is started
ConfigValidate ==
    /\ call.fn = "frequency"
    /\ call.ret.state = "new"
    /\ call' = [call EXCEPT !.n = @ + 1,
                            !.ret.state = IF FrequencyRejected(call.arg)
                                          THEN "rejected" ELSE "accepted"]
    /\ UNCHANGED <<pipeline, sk>>

\* the discovery loop computes the interval once
ConfigInterval ==
    /\ call.fn = "frequency"
    /\ call.ret.state = "accepted"
    /\ call' = [call EXCEPT !.n = @ + 1,
                            !.ret.state = "interval",
                            !.ret.interval = Interval(call.arg)]
    /\ UNCHANGED <<pipeline, sk>>

\* NewHTTPFramePoller: time.NewTicker(interval) panics on an interval that
\* is not positive
PollerTicker ==
    /\ call.fn = "frequency"
    /\ call.ret.state = "interval"
    /\ call' = [call EXCEPT !.n = @ + 1,
                            !.ret.state = IF call.ret.interval <= 0
                                          THEN "panic" ELSE "ticking"]
    /\ UNCHANGED <<pipeline, sk>>

\* ------------------------------------------------------- update check

\* Version strings the comparison is fed: an optional "v", one to
\* MaxParts dotted components, and the build default "dev", the empty
\* string and a four-component tag.
MaxParts == 3           \* dotted components of a generated version

Components == {<<"0">>, <<"2">>, <<"1", "0">>, <<"2", "b">>}

RECURSIVE Dotted(_)
Dotted(n) ==
    IF n = 1 THEN Components
    ELSE {d \o <<".">> \o c : d \in Dotted(n - 1), c \in Components}

Versions ==
    LET plain == UNION {Dotted(n) : n \in 1..MaxParts}
                   \cup {<<>>, <<"d", "e", "v">>,
                         <<"2", ".", "0", ".", "0", ".", "2">>}
    IN  plain \cup {<<"v">> \o p : p \in plain}

\* strings.TrimPrefix(s, "v")
TrimPrefixV(s) ==
    IF Len(s) >= 1 /\ s[1] = "v" THEN SubSeq(s, 2, Len(s)) ELSE s

\* extractNumeric: the value of the leading run of ASCII digits, 0 if none
RECURSIVE extractNumericFrom(_, _)
extractNumericFrom(s, num) ==
    IF s = <<>> \/ s[1] \notin DigitChars THEN num
    ELSE extractNumericFrom(Tail(s), num * 10 + DigitValue(s[1]))

extractNumeric(s) == extractNumericFrom(s, 0)

\* the parts after strings.Split(s, ".") padded with "0" to three
PaddedParts(s) ==
    LET parts == SplitAt(s, ".")
    IN  IF Len(parts) >= 3 THEN parts
        ELSE parts \o [i \in 1..(3 - Len(parts)) |-> <<"0">>]

\* the loop over the first three parts: the first differing pair decides
RECURSIVE CompareFrom(_, _, _)
CompareFrom(currentParts, latestParts, i) ==
    IF i > 3 THEN FALSE
    ELSE LET currentNum == extractNumeric(currentParts[i])
             latestNum  == extractNumeric(latestParts[i])
         IN  IF latestNum > currentNum THEN TRUE
             ELSE IF latestNum < currentNum THEN FALSE
             ELSE CompareFrom(currentParts, latestParts, i + 1)

\* the comparison on the raw component strings instead of their numbers
RECURSIVE StringLess(_, _)
StringLess(a, b) ==
    IF b = <<>> THEN FALSE
    ELSE IF a = <<>> THEN TRUE
    ELSE IF a[1] # b[1]
         THEN (a[1] \in DigitChars /\ b[1] \in DigitChars
                  /\ DigitValue(a[1]) < DigitValue(b[1]))
              \/ (a[1] \in DigitChars /\ b[1] \notin DigitChars)
    ELSE StringLess(Tail(a), Tail(b))

RECURSIVE CompareStringsFrom(_, _, _)
CompareStringsFrom(currentParts, latestParts, i) ==
    IF i > 3 THEN FALSE
    ELSE IF StringLess(currentParts[i], latestParts[i]) THEN TRUE
    ELSE IF StringLess(latestParts[i], currentParts[i]) THEN FALSE
    ELSE CompareStringsFrom(currentParts, latestParts, i + 1)

isNewerVersionByString(current, latest) ==
    LET c == TrimPrefixV(current)
        l == TrimPrefixV(latest)
    IN  IF c = <<"d", "e", "v">> \/ c = <<>> THEN TRUE
        ELSE CompareStringsFrom(PaddedParts(c), PaddedParts(l), 1)

isNewerVersion(current, latest) ==
    LET c == TrimPrefixV(current)
        l == TrimPrefixV(latest)
    IN  IF c = <<"d", "e", "v">> \/ c = <<>> THEN TRUE
        ELSE CompareFrom(PaddedParts(c), PaddedParts(l), 1)

\* CheckForUpdateAsync compares the build's version with the release tag.
CheckForUpdate ==
    /\ call.fn = "isNewerVersion" /\ call.n = 0
    /\ call' = [call EXCEPT !.ret = isNewerVersion(call.arg.current,
                                                   call.arg.latest),
                            !.n = 1]
    /\ UNCHANGED <<pipeline, sk>>

\* ------------------------------------------------------------ converter

\* ConvertFile(inputPath, options) on an input of call.arg.frames lines.
\* Opening, reading, creating, encoding, closing and removing are calls
\* into the operating system and each can succeed or fail.
MaxInputFrames == 3     \* lines of the converted input

ConvertStart ==
    /\ call.fn = "ConvertFile" /\ call.ret.pc = "start"
    /\ call' = [call EXCEPT !.ret.pc =
                   IF call.arg.dryRun THEN "done" ELSE "open"]
    /\ UNCHANGED <<pipeline, sk>>

\* NewEchoReplayReader: a failure returns before anything is read
ReaderOpen ==
    /\ call.fn = "ConvertFile" /\ call.ret.pc = "open"
    /\ \E ok \in BOOLEAN :
         call' = [call EXCEPT !.ret.pc = IF ok THEN "read" ELSE "done",
                              !.ret.err = IF ok THEN "none" ELSE "open"]
    /\ UNCHANGED <<pipeline, sk>>

\* ReadAllFrames: one ReadFrame per step; a malformed line or a scanner
\* error returns the error, io.EOF ends the loop
ReaderReadFrame ==
    /\ call.fn = "ConvertFile" /\ call.ret.pc = "read"
    /\ \E ok \in BOOLEAN :
         call' = IF ~ok
                 THEN [call EXCEPT !.ret.pc = "done", !.ret.err = "read"]
                 ELSE IF call.ret.read < call.arg.frames
                 THEN [call EXCEPT !.ret.read = @ + 1]
                 ELSE [call EXCEPT !.ret.pc = "write"]
    /\ UNCHANGED <<pipeline, sk>>

\* NEVRWriter.WriteFrame keeps the frame in memory; marshalling a string
\* does not fail
NEVRWriteFrame ==
    /\ call.fn = "ConvertFile" /\ call.ret.pc = "write"
    /\ call' = IF call.ret.written < call.ret.read
               THEN [call EXCEPT !.ret.written = @ + 1]
               ELSE [call EXCEPT !.ret.pc = "create"]
    /\ UNCHANGED <<pipeline, sk>>

\* NEVRWriter.Close, os.Create
NEVRCreate ==
    /\ call.fn = "ConvertFile" /\ call.ret.pc = "create"
    /\ \E ok \in BOOLEAN :
         call' = IF ok
                 THEN [call EXCEPT !.ret.pc = "encode", !.ret.out = "created"]
                 ELSE [call EXCEPT !.ret.pc = "done", !.ret.err = "close"]
    /\ UNCHANGED <<pipeline, sk>>

\* NEVRWriter.Close, encoder.Encode; the deferred file.Close follows on
\* both outcomes
NEVREncode ==
    /\ call.fn = "ConvertFile" /\ call.ret.pc = "encode"
    /\ \E ok \in BOOLEAN :
         call' = [call EXCEPT !.ret.pc = "fileclose",
                              !.ret.out = IF ok THEN "encoded" ELSE "created",
                              !.ret.err = IF ok THEN "none" ELSE "close"]
    /\ UNCHANGED <<pipeline, sk>>

\* NEVRWriter.Close, defer file.Close(): its result is dropped, the
\* error returned is the one of Encode
NEVRFileClose ==
    /\ call.fn = "ConvertFile" /\ call.ret.pc = "fileclose"
    /\ \E ok \in BOOLEAN :
         call' = [call EXCEPT
                    !.ret.closed = IF ok THEN "ok" ELSE "failed",
                    !.ret.pc = IF call.ret.err # "none" THEN "done"
                               ELSE IF call.arg.remove THEN "remove"
                               ELSE "done"]
    /\ UNCHANGED <<pipeline, sk>>

\* os.Remove(inputPath) when options.RemoveOriginal
RemoveOriginal ==
    /\ call.fn = "ConvertFile" /\ call.ret.pc = "remove"
    /\ \E ok \in BOOLEAN :
         call' = [call EXCEPT !.ret.pc = "done",
                              !.ret.input = IF ok THEN "removed" ELSE "present",
                              !.ret.err = IF ok THEN "none" ELSE "remove"]
    /\ UNCHANGED <<pipeline, sk>>

\* ------------------------------------- the poller's two reused buffers
\* NewHTTPFramePoller of the recorder keeps one bytes.Buffer per endpoint
\* for the whole session.  A frame holds sessionBuffer.Bytes() and
\* playerBonesBuffer.Bytes(): slices of the buffers' arrays, not copies.
\* mem[p] is what the array of buffer p holds (the tick whose body was
\* copied into it last, torn while io.Copy is overwriting it); a frame
\* keeps, per part, whether its slice is non-empty.  Bodies fit the
\* buffers' 64 KiB, so the arrays are never reallocated.
MaxTicks == 3           \* poll ticks of one session
MaxQueued == 2          \* capacity of the session's frame queue

Buffers == {"session", "bones"}

NewBufferedPoller ==
    [tick |-> 0, pc |-> "wait",
     mem |-> [p \in Buffers |-> [tick |-> 0, torn |-> FALSE]],
     len |-> [p \in Buffers |-> FALSE],
     get |-> [p \in Buffers |-> "idle"],
     q |-> <<>>, written |-> <<>>]

\* case <-ticker.C, then buf.Reset() on both buffers and one goroutine per
\* URL: Reset sets the length to zero and leaves the array as it is
TickResetsBuffers ==
    /\ call.fn = "poller" /\ call.ret.pc = "wait"
    /\ call.ret.tick < MaxTicks
    /\ call' = [call EXCEPT !.ret.tick = @ + 1,
                            !.ret.pc = "fetch",
                            !.ret.len = [p \in Buffers |-> FALSE],
                            !.ret.get = [p \in Buffers |-> "get"]]
    /\ UNCHANGED <<pipeline, sk>>

\* client.Get fails or answers another status: nothing is copied
FetchFails(p) ==
    /\ call.fn = "poller" /\ call.ret.pc = "fetch"
    /\ call.ret.get[p] = "get"
    /\ call' = [call EXCEPT !.ret.get[p] = "done"]
    /\ UNCHANGED <<pipeline, sk>>

\* io.Copy(buf, resp.Body) starts writing the body over the array
FetchCopies(p) ==
    /\ call.fn = "poller" /\ call.ret.pc = "fetch"
    /\ call.ret.get[p] = "get"
    /\ call' = [call EXCEPT !.ret.get[p] = "copy",
                            !.ret.mem[p].torn = TRUE]
    /\ UNCHANGED <<pipeline, sk>>

\* io.Copy returns: the array holds this tick's body
FetchDone(p) ==
    /\ call.fn = "poller" /\ call.ret.pc = "fetch"
    /\ call.ret.get[p] = "copy"
    /\ call' = [call EXCEPT !.ret.get[p] = "done",
                            !.ret.mem[p] = [tick |-> call.ret.tick,
                                            torn |-> FALSE],
                            !.ret.len[p] = TRUE]
    /\ UNCHANGED <<pipeline, sk>>

\* after wg.Wait(): the FrameData over the two buffers and
\* session.WriteFrame, which drops the frame when the queue is full
PollWriteFrame ==
    /\ call.fn = "poller" /\ call.ret.pc = "fetch"
    /\ \A p \in Buffers : call.ret.get[p] = "done"
    /\ LET frame == [tick |-> call.ret.tick, len |-> call.ret.len]
       IN  call' = [call EXCEPT
                      !.ret.pc = "wait",
                      !.ret.q = IF Len(@) < MaxQueued THEN Append(@, frame)
                                ELSE @]
    /\ UNCHANGED <<pipeline, sk>>

\* what a read through the frame's slice of buffer p returns
SliceBytes(frame, mem, p) == IF frame.len[p] THEN mem[p] ELSE "empty"

\* ProcessFrames, case frame := <-fw.outgoingCh: extractSessionUUID and
\* writer.WriteFrame read frame.SessionData and frame.PlayerBoneData
DrainReadsFrame ==
    /\ call.fn = "poller"
    /\ call.ret.q # <<>>
    /\ LET frame == Head(call.ret.q)
       IN  call' = [call EXCEPT
                      !.ret.q = Tail(@),
                      !.ret.written = Append(@,
                         [tick |-> frame.tick, len |-> frame.len,
                          bytes |-> [p \in Buffers |->
                                       SliceBytes(frame, call.ret.mem, p)]])]
    /\ UNCHANGED <<pipeline, sk>>

\* ------------------------------- one base URL, session after session
\* The sessions startAgent creates for one base URL, one after the other,
\* each with its poller and its tasks; the tasks of a session that left
\* the map go on until they end by themselves.  The game server answers
\* throughout and moves from one match to the next.
MaxGenerations == 2     \* sessions created for the base URL
MaxPolls == 4           \* frames the pollers of the base URL build

Generations == 1..MaxGenerations

NoGeneration ==
    [p |-> [f |-> NoFileSession, e |-> NoEventsWriter, m |-> NoMultiWriter],
     pl |-> NoPoller, m |-> 0]

\* the sinks and the poller of a new session for match m
NewGeneration(kind, m) ==
    [p |-> [f |-> NewFrameDataLogSession,
            e |-> IF kind = "multi" THEN NewEventsAPIWriter
                  ELSE NoEventsWriter,
            m |-> IF kind = "multi" THEN NewMultiWriter ELSE NoMultiWriter],
     pl |-> NewPoller, m |-> m]

\* a lookup that starts a session whatever the map holds
StartsSessionAlways(kind, reg, gen) == TRUE

\* the map lookup of the visit: no entry, or an entry whose session
\* reports stopped and is deleted; otherwise the visit continues with the
\* next target
StartsSession(kind, reg, gen) ==
    IF reg = 0 THEN TRUE ELSE SessionIsStopped(kind, gen[reg].p)

\* the visit probes the endpoint and starts session g and its poller
HandoverVisit ==
    /\ sk.kind \in {"file", "multi"}
    /\ StartsSession(sk.kind, sk.reg, sk.gen)
    /\ \E g \in Generations :
         /\ sk.gen[g].pl.pc = "none"
         /\ \A h \in 1..(g - 1) : sk.gen[h].pl.pc # "none"
         /\ sk' = [sk EXCEPT !.reg = g,
                             !.gen[g] = NewGeneration(sk.kind, sk.srv)]
    /\ UNCHANGED <<pipeline, call>>

\* the match on the game server ends and the next one begins
HandoverNextMatch ==
    /\ sk.kind \in {"file", "multi"}
    /\ sk.srv < MaxMatches
    /\ sk' = [sk EXCEPT !.srv = @ + 1]
    /\ UNCHANGED <<pipeline, call>>

\* one tick of the poller of session g: both bodies arrive, the frame is
\* handed to session.WriteFrame, the timer is reset on nil
HandoverTick(g) ==
    /\ sk.kind \in {"file", "multi"}
    /\ sk.gen[g].pl.pc = "wait"
    /\ ~SessionCtxDone(sk.kind, sk.gen[g].p)
    /\ sk.polls < MaxPolls
    /\ LET p == sk.gen[g].p
           frame == [id |-> sk.polls + 1, m |-> sk.srv, bones |-> TRUE]
           ticked == Min(sk.gen[g].pl.idle + 1, TimeoutTicks)
       IN  \E r \in SessionWriteOutcomes(sk.kind, p, frame) :
             sk' = [sk EXCEPT
                      !.polls = @ + 1,
                      !.gen[g].p = SessionWriteFrame(sk.kind, p, frame, r),
                      !.gen[g].pl.idle =
                          TimerAfterWrite(ticked,
                                          SessionWriteNil(sk.kind, p, r))]
    /\ UNCHANGED <<pipeline, call>>

\* the poller of session g returns on its context or on the inactivity
\* timer; the deferred session.Close() runs
HandoverPollReturn(g) ==
    /\ sk.kind \in {"file", "multi"}
    /\ sk.gen[g].pl.pc = "wait"
    /\ \/ SessionCtxDone(sk.kind, sk.gen[g].p)
       \/ sk.gen[g].pl.idle >= TimeoutTicks
    /\ sk' = [sk EXCEPT !.gen[g].p = SessionClose(sk.kind, sk.gen[g].p),
                        !.gen[g].pl.pc = "done"]
    /\ UNCHANGED <<pipeline, call>>

\* ProcessFrames of session g: the frame branch
HandoverDrain(g) ==
    /\ sk.kind \in {"file", "multi"}
    /\ sk.gen[g].p.f.pf = "run"
    /\ sk.gen[g].p.f.q # <<>>
    /\ sk' = [sk EXCEPT !.gen[g].p.f =
                 DrainFrame(sk.gen[g].p.f, MatchUUID(sk.gen[g].m))]
    /\ UNCHANGED <<pipeline, call>>

\* ProcessFrames of session g: the ctx.Done branch
HandoverDrainCancel(g) ==
    /\ sk.kind \in {"file", "multi"}
    /\ sk.gen[g].p.f.pf = "run"
    /\ FileCtxDone(sk.gen[g].p.f)
    /\ sk' = [sk EXCEPT !.gen[g].p.f = DrainFinish(sk.gen[g].p.f)]
    /\ UNCHANGED <<pipeline, call>>

\* the remote sink of session g sends one queued frame, or ends on its
\* context
HandoverSend(g) ==
    /\ sk.kind = "multi"
    /\ sk.gen[g].p.e.run = "run"
    /\ \/ /\ sk.gen[g].p.e.q # <<>>
          /\ sk' = [sk EXCEPT
                      !.gen[g].p.e.q = Tail(@),
                      !.gen[g].p.e.sent = Append(@, Head(sk.gen[g].p.e.q))]
       \/ /\ sk.gen[g].p.e.cancelled
          /\ sk' = [sk EXCEPT !.gen[g].p.e.run = "done"]
    /\ UNCHANGED <<pipeline, call>>

\* ------------------------------------------------------- specification
PipelineInit ==
    /\ variant \in {"recorder", "agent"}
    /\ events \in BOOLEAN
    /\ variant = "recorder" => ~events
    /\ sup = "running"
    /\ disc = [pc |-> "top", i |-> 1]
    /\ registry = [u \in BaseURLs |-> 0]
    /\ recorded = [u \in BaseURLs |-> {}]
    /\ meta = [s \in Sids |-> NoMeta]
    /\ fs = [s \in Sids |-> NoFileSession]
    /\ es = [s \in Sids |-> NoEventsWriter]
    /\ mw = [s \in Sids |-> NoMultiWriter]
    /\ pl = [s \in Sids |-> NoPoller]
    /\ server = [u \in BaseURLs |-> [up |-> FALSE, n |-> 0]]
    /\ nframes = 0
    /\ hist = [s \in Sids |-> NoHist]

Init ==
    /\ PipelineInit
    /\ sk = NoSinks
    /\ call = NoCall

Next ==
    \/ DiscReturn
    \/ DiscBreak
    \/ DiscVisit
    \/ DiscSleep
    \/ SupCancel
    \/ SupExit
    \/ \E u \in BaseURLs : ServerNewMatch(u)
    \/ \E u \in BaseURLs : ServerDown(u)
    \/ \E s \in Sids : PollTick(s)
    \/ \E s \in Sids : PollCancel(s)
    \/ \E s \in Sids : PollTimeout(s)
    \/ \E s \in Sids : DrainStep(s)
    \/ \E s \in Sids : DrainCancel(s)
    \/ \E s \in Sids : EventsSend(s)
    \/ \E s \in Sids : EventsStop(s)

Spec == Init /\ [][Next]_vars

\* the writer alone, its users calling it in any order
SinkInit ==
    /\ PipelineInit
    /\ variant = "agent"
    /\ events
    /\ sk \in {NewSinks("file", "none"), NewSinks("multi", "events"),
               NewSinks("multi", "ws")}
    /\ call = NoCall

SinkNext ==
    \/ SinkWriteFrame
    \/ SinkDrain
    \/ SinkDrainCancel
    \/ SinkCreateFails
    \/ SinkWriteFails
    \/ SinkSend
    \/ SinkSendStop
    \/ SinkRemoteLost
    \/ SinkRemoteWriteFails
    \/ \E t \in Closers : SinkCloseFile(t)
    \/ \E t \in Closers : SinkCloseCheck(t)
    \/ \E t \in Closers : SinkCloseBody(t)

SinkSpec == SinkInit /\ [][SinkNext]_vars

\* the stream sink alone, its user and its peer acting in any order
StreamInit ==
    /\ PipelineInit
    /\ variant = "agent"
    /\ sk = NewStreamWriter
    /\ call = NoCall

StreamNext ==
    \/ StreamWriteFrame
    \/ StreamPresence
    \/ \E t \in Senders : StreamTake(t)
    \/ \E t \in Senders : StreamSend(t)
    \/ \E t \in Senders : StreamSenderStop(t)
    \/ StreamOverflowClose
    \/ StreamClose
    \/ StreamReadEnds

StreamSpec == StreamInit /\ [][StreamNext]_vars

\* the close of one replay file, stage by stage
CloseInit ==
    /\ PipelineInit
    /\ sk = NoSinks
    /\ \E w \in FileWriters, b \in BOOLEAN :
         /\ variant = "agent" <=> w = "agent-zip"
         /\ call = [fn |-> "Close", arg |-> [w |-> w, buffered |-> b],
                    ret |-> <<>>, n |-> 1]

CloseSpec == CloseInit /\ [][CloseStep]_vars

\* a replay file written frame by frame, then read back
RoundTripInit ==
    /\ PipelineInit
    /\ variant = "recorder"
    /\ sk = NoSinks
    /\ \E n \in 0..MaxRecords : \E frames \in [1..n -> FrameDatas] :
         call = [fn |-> "write", arg |-> frames, n |-> 0,
                 ret |-> [data |-> <<>>,
                          read |-> [ok |-> TRUE, frames |-> <<>>]]]

RoundTripNext ==
    \/ FileWriteRecord
    \/ FileReadAll

RoundTripSpec == RoundTripInit /\ [][RoundTripNext]_vars

\* the port part of one argument, parsed
PortsInit ==
    /\ PipelineInit
    /\ variant = "agent"
    /\ sk = NoSinks
    /\ \E n \in 0..MaxItems : \E items \in [1..n -> Items] :
         call = [fn |-> "parsePortRange",
                 arg |-> [items |-> items, text |-> ArgumentText(items)],
                 ret |-> [err |-> FALSE, ports |-> <<>>], n |-> 0]

PortsSpec == PortsInit /\ [][ParsePorts]_vars

\* the target set built from the arguments, and the scan cycles over it
TargetsInit ==
    /\ PipelineInit
    /\ variant = "agent"
    /\ sk = NoSinks
    /\ \E n \in 1..MaxArgs : \E args \in [1..n -> HostPorts] :
         call = [fn |-> "targets", arg |-> args, n |-> 0,
                 ret |-> [targets |-> <<>>, seen |-> {}, visits |-> <<>>,
                          cycles |-> <<>>]]

TargetsNext ==
    \/ TargetAdd
    \/ ScanHost
    \/ ScanCycleEnd

TargetsSpec == TargetsInit /\ [][TargetsNext]_vars

\* the frequency flag, from validation to the poller's ticker
ConfigInit ==
    /\ PipelineInit
    /\ sk = NoSinks
    /\ \E frequency \in Frequencies :
         call = [fn |-> "frequency", arg |-> frequency, n |-> 0,
                 ret |-> [state |-> "new", interval |-> 0]]

ConfigNext ==
    \/ ConfigValidate
    \/ ConfigInterval
    \/ PollerTicker

ConfigSpec == ConfigInit /\ [][ConfigNext]_vars

\* the update check alone: one comparison of two version strings
VersionInit ==
    /\ PipelineInit
    /\ variant = "agent"
    /\ sk = NoSinks
    /\ \E current \in Versions : \E latest \in Versions :
         call = [fn |-> "isNewerVersion",
                 arg |-> [current |-> current, latest |-> latest],
                 ret |-> FALSE, n |-> 0]

VersionSpec == VersionInit /\ [][CheckForUpdate]_vars

\* the converter alone: one ConvertFile call
ConvertInit ==
    /\ PipelineInit
    /\ variant = "agent"
    /\ sk = NoSinks
    /\ \E remove \in BOOLEAN : \E dryRun \in BOOLEAN :
       \E frames \in 0..MaxInputFrames :
         call = [fn |-> "ConvertFile",
                 arg |-> [remove |-> remove, dryRun |-> dryRun,
                          frames |-> frames],
                 ret |-> [pc |-> "start", read |-> 0, written |-> 0,
                          input |-> "present", out |-> "none",
                          closed |-> "no", err |-> "none"],
                 n |-> 0]

ConvertNext ==
    \/ ConvertStart
    \/ ReaderOpen
    \/ ReaderReadFrame
    \/ NEVRWriteFrame
    \/ NEVRCreate
    \/ NEVREncode
    \/ NEVRFileClose
    \/ RemoveOriginal

ConvertSpec == ConvertInit /\ [][ConvertNext]_vars

\* the recorder's poller and drain task over the reused buffers
BufferInit ==
    /\ PipelineInit
    /\ variant = "recorder"
    /\ sk = NoSinks
    /\ call = [fn |-> "poller", arg |-> "none", ret |-> NewBufferedPoller, n |-> 0]

BufferNext ==
    \/ TickResetsBuffers
    \/ \E p \in Buffers : FetchFails(p)
    \/ \E p \in Buffers : FetchCopies(p)
    \/ \E p \in Buffers : FetchDone(p)
    \/ PollWriteFrame
    \/ DrainReadsFrame

BufferSpec == BufferInit /\ [][BufferNext]_vars

\* the sessions of one base URL
HandoverInit ==
    /\ PipelineInit
    /\ variant = "agent"
    /\ \E kind \in {"file", "multi"} :
         sk = [kind |-> kind, reg |-> 0, srv |-> 1, polls |-> 0,
               gen |-> [g \in Generations |-> NoGeneration]]
    /\ events = (sk.kind = "multi")
    /\ call = NoCall

HandoverNext ==
    \/ HandoverVisit
    \/ HandoverNextMatch
    \/ \E g \in Generations : HandoverTick(g)
    \/ \E g \in Generations : HandoverPollReturn(g)
    \/ \E g \in Generations : HandoverDrain(g)
    \/ \E g \in Generations : HandoverDrainCancel(g)
    \/ \E g \in Generations : HandoverSend(g)

HandoverSpec == HandoverInit /\ [][HandoverNext]_vars

\* the probe alone: the discovery loop probes one endpoint again and again
ProbeInit ==
    /\ PipelineInit
    /\ sk = NoSinks
    /\ call = NoCall

ProbeCall ==
    /\ call.n < MaxProbes
    /\ \E resp \in Responses :
         call' = [fn |-> "GetSessionMeta", arg |-> resp,
                  ret |-> GetSessionMeta(variant, resp), n |-> call.n + 1]
    /\ UNCHANGED <<pipeline, sk>>

ProbeSpec == ProbeInit /\ [][ProbeCall]_vars

\* ---------------------------------------------------- shared predicates
Open(s) == meta[s].kind # "none"

\* the frames of a sequence
FramesOf(q) == {q[i] : i \in 1..Len(q)}

\* the frame carries the session UUID the session was created for
Matches(s, frame) == FrameUUID(frame) = SessionUUID(s)

\* both bodies of the tick arrived
Complete(frame) == frame.m # 0 /\ frame.bones

\* the frame was fetched from the match the session was created for
OwnMatch(s, frame) == frame.m = meta[s].m

\* every frame the session accepted is a complete frame of its own match:
\* none that the drain task rejects
AcceptedOnlyOwn(s) ==
    \A fr \in FramesOf(hist[s].acc) : OwnMatch(s, fr) /\ Complete(fr)

\* --------------------------------------------------------------- claims
\* C1: once the drain task of a session has finished (the session was closed
\* by Close(), cancellation or inactivity), every frame whose WriteFrame
\* returned nil, and which therefore was not dropped for overflow, is in the
\* output file, in enqueue order.  Stated for the sessions that accepted
\* only complete frames of their own match.
C1_AcceptedFramesInFile ==
    \A s \in Sids : (Open(s) /\ fs[s].pf = "done" /\ AcceptedOnlyOwn(s)) =>
        fs[s].out = hist[s].acc

\* C2: every frame written to a session's replay file or delivered by
\* another sink of the session carries the session UUID of that session: no
\* frame with another UUID or without an extractable UUID gets there.
C2_OnlyMatchingFramesInSinks ==
    \A s \in Sids : Open(s) =>
        \A fr \in FramesOf(fs[s].out) \cup FramesOf(fs[s].buf)
                  \cup FramesOf(es[s].sent) : Matches(s, fr)

\* C3: once a frame of another session UUID has reached the session (the
\* drain task has met it), the session has left Running: it reports stopped
\* and every sink configured for it is closed.
C3_DriftStopsSession ==
    \A s \in Sids : (Open(s) /\ hist[s].drift) =>
        /\ SessionIsStopped(meta[s].kind, Parts(s))
        /\ fs[s].stopped
        /\ es[s].run # "none" => es[s].stopped

\* C4: after a UUID change the old session reports Stopped and its registry
\* entry is evicted, so that a session per lived match (A, B, A again) gets
\* registered: a discovery visit of a base URL whose registered session has
\* met a frame of another match removes or replaces that registry entry.
C4_DriftedSessionEvicted ==
    [][\A u \in BaseURLs :
          (/\ disc.pc \in {"top", "scan"}
           /\ disc'.pc \in {"scan", "sleep"}
           /\ Targets[disc.i] = u
           /\ registry[u] # 0
           /\ hist[registry[u]].drift)
          => (registry'[u] # registry[u] \/ ~hist'[registry[u]].drift)]_vars

\* C5: when the discovery loop has returned after the supervisor's
\* cancellation, Close() has been invoked on every session of the registry:
\* each of them reports Stopped.
C5_DiscoveryClosesSessions ==
    disc.pc = "done" =>
        \A u \in BaseURLs : registry[u] # 0 =>
            SessionIsStopped(meta[registry[u]].kind, Parts(registry[u]))

\* C6: the supervisor's cancellation reaches every poller and every sink
\* task: once the supervisor has cancelled and the discovery loop has
\* returned, the context of every poller still waiting and of every HTTP
\* sender still running is done, so that the task terminates.
C6_CancellationReachesTasks ==
    (sup = "cancelled" /\ disc.pc = "done") =>
        \A s \in Sids :
            /\ pl[s].pc = "wait" => SessionCtxDone(meta[s].kind, Parts(s))
            /\ es[s].run = "run" => es[s].cancelled

C8_NoFrameFromStalledServer ==
    [][\A s \in Sids :
          (Open(s) /\ ~server[meta[s].url].up)
          => Len(hist'[s].acc) <= Len(hist[s].acc)]_vars

\* C9: a tick in which one of the two GETs failed enqueues nothing: every
\* frame that was enqueued onto a session was built from both bodies.
C9_NoPartialFrameEnqueued ==
    \A s \in Sids : Open(s) =>
        \A fr \in FramesOf(hist[s].acc) \cup FramesOf(fs[s].q)
                  \cup FramesOf(es[s].q) : Complete(fr)

\* C10: the inactivity timer is reset only by a tick whose dual fetch
\* succeeded: a tick that enqueues a frame built from a failed fetch leaves
\* the timer running.
C10_TimerResetOnlyOnSuccess ==
    [][\A s \in Sids :
          (/\ Len(hist'[s].acc) > Len(hist[s].acc)
           /\ ~Complete(hist'[s].acc[Len(hist'[s].acc)]))
          => pl'[s].idle # 0]_vars

C12_FanOutNilIffChildSucceeded ==
    (sk.kind = "multi" /\ sk.last # "none") =>
        (sk.last = "nil" <=> (WriteOK(sk.r[1]) \/ WriteOK(sk.r[2])))

\* C13: a frame passed to the fan-out is offered to every child that is not
\* stopped, whatever the other child returns: a replay-file child that is
\* running with room in its queue gets the frame and the call returns nil,
\* also when the remote sink overflows or fails.
C13_RemoteFailureSparesFile ==
    [][(/\ sk.calls' # sk.calls
        /\ sk.kind = "multi"
        /\ ~sk.m.stopped)
       => /\ ~sk.f.stopped => sk.r'[1] # "skip"
          /\ ~sk.e.stopped => sk.r'[2] # "skip"
          /\ (~sk.f.stopped /\ ~FileCtxDone(sk.f) /\ Len(sk.f.q) < QueueCap)
             => /\ Len(sk.f.q') = Len(sk.f.q) + 1
                /\ sk.f.q'[Len(sk.f.q')].id = sk.calls'
                /\ sk.last' = "nil"]_vars

\* C13 witness: the last frame overflowed the remote sink's queue and is in
\* the replay-file session's queue; the call returned nil
C13_FileGotFrameRemoteDropped ==
    /\ sk.kind = "multi"
    /\ sk.r = <<"ok", "full">>
    /\ sk.last = "nil"
    /\ sk.f.q # <<>>
    /\ sk.f.q[Len(sk.f.q)].id = sk.calls

\* C14: a session reports Stopped only after its sinks have reached their
\* terminal state: while IsStopped() is true the replay file has been
\* flushed and closed and no sender task of the session is still running.
C14_StoppedOnlyAfterSinksDone ==
    \A s \in Sids :
        (Open(s) /\ SessionIsStopped(meta[s].kind, Parts(s))) =>
            /\ fs[s].closed /\ fs[s].buf = <<>>
            /\ es[s].run # "run"

\* C15: once a session or sink is stopped it stays stopped, and a
\* WriteFrame call on it returns an error and enqueues nothing.
C15_StoppedRejectsFrames ==
    [][/\ sk.f.stopped => (sk.f.stopped' /\ Len(sk.f.q') <= Len(sk.f.q))
       /\ sk.e.stopped => (sk.e.stopped' /\ Len(sk.e.q') <= Len(sk.e.q))
       /\ sk.m.stopped => sk.m.stopped'
       /\ (sk.calls' # sk.calls /\ SessionIsStopped(sk.kind, SinkParts))
          => (sk.last' = "err" /\ sk.f.q' = sk.f.q /\ sk.e.q' = sk.e.q)]_vars

\* C15 witness: WriteFrame was called on a stopped writer and returned an
\* error: the replay-file session answered "stopped", or the MultiWriter
\* returned its error without invoking a child
C15_CallOnStoppedWriter ==
    /\ sk.last = "err"
    /\ \/ sk.kind = "file" /\ sk.r[1] = "stopped" /\ sk.f.stopped
       \/ sk.kind = "multi" /\ sk.r = <<"skip", "skip">> /\ sk.m.stopped

\* C16: Close() is idempotent on every writer, also when the calls come from
\* different tasks: the body of Close (mark stopped, cancel, close the
\* children, log) takes effect once, every other call is a no-op.
C16_CloseTakesEffectOnce ==
    sk.effects <= 1

\* the sessions of a base URL that do not report stopped
Running(u) ==
    {s \in Sids : /\ Open(s)
                  /\ meta[s].url = u
                  /\ ~SessionIsStopped(meta[s].kind, Parts(s))}

\* the registry entry of base URL u holds a session that reports stopped
StoppedEntry(u) ==
    /\ registry[u] # 0
    /\ SessionIsStopped(meta[registry[u]].kind, Parts(registry[u]))

\* the discovery loop is about to visit base URL u
Visiting(u) ==
    /\ disc.pc \in {"top", "scan"}
    /\ ~SupDone
    /\ Targets[disc.i] = u

\* C17: the registry holds at most one session per base URL, and the
\* discovery loop creates a session for a base URL only when the registry
\* has no entry for it or the entry's session reports Stopped and is
\* evicted: no two sessions of one base URL are running at once.
C17_OneSessionPerBaseURL ==
    \A u \in BaseURLs :
        /\ registry[u] # 0 =>
              (Open(registry[u]) /\ meta[registry[u]].url = u)
        /\ (Visiting(u) /\ VisitCreates(u)) =>
              (registry[u] = 0 \/ StoppedEntry(u))
        /\ Cardinality(Running(u)) <= 1

\* C17 witness: a second session was created for the base URL after the
\* first one was evicted, and is registered and polling
C17_SecondSessionRegistered ==
    \E u \in BaseURLs :
        /\ Cardinality(recorded[u]) >= 2
        /\ registry[u] # 0
        /\ pl[registry[u]].pc = "wait"
        /\ meta[registry[u]].m = 2
        /\ fs[registry[u]].pf = "run"

\* C18: a visit of the discovery loop to a base URL whose registered
\* session reports Stopped evicts the entry (deleting it or replacing it by
\* a new session), and a visit that finds no entry probes the endpoint, so
\* that a match running there gets a new session.
C18_StoppedSessionEvicted ==
    [][\A u \in BaseURLs :
          (Visiting(u) /\ disc'.pc \in {"scan", "sleep"}) =>
             /\ StoppedEntry(u) =>
                   \/ registry'[u] = 0
                   \/ /\ pl'[registry'[u]] = NewPoller
                      /\ fs'[registry'[u]] = NewFrameDataLogSession
             /\ (registry[u] = 0 /\ server[u].up) =>
                   /\ registry'[u] # 0
                   /\ meta'[registry'[u]].m = server[u].n
                   /\ pl'[registry'[u]] = NewPoller]_vars

\* C18 witness: the entry of a session that had been recording was evicted
\* and the discovery loop goes on scanning
C18_EntryEvicted ==
    \E u \in BaseURLs :
        /\ recorded[u] # {}
        /\ registry[u] = 0
        /\ disc.pc = "sleep"
        /\ \E s \in Sids : Open(s) /\ meta[s].url = u /\ fs[s].stopped

\* a probe was made and answered with a status
Probed == call.fn = "GetSessionMeta"

\* C19: the probe maps 200 with a session UUID to the SessionMeta, 200 with
\* an empty session UUID to "inactive" (no error), 404 to "inactive", 500 to
\* the APIAccessDisabled sentinel and every other status to an error.
C19_ProbeMapsResponses ==
    (Probed /\ call.arg.kind = "status") =>
        LET code == call.arg.code
            body == call.arg.body
        IN  /\ (code = 200 /\ body = "uuid") =>
                  (call.ret.uuid # "" /\ call.ret.err = "nil")
            /\ (code = 200 /\ body = "nouuid") => call.ret = Inactive
            /\ code = 404 => call.ret = Inactive
            /\ code = 500 => call.ret = ProbeError("disabled")
            /\ code \notin {200, 404, 500} => call.ret = ProbeError("error")

\* C20: a probe whose connection is refused returns "inactive": an empty
\* SessionMeta and no error.
C20_RefusedIsInactive ==
    (Probed /\ call.arg.kind = "refused") => call.ret = Inactive

\* C21: a replay-file sink that hits a file I/O error (its output file
\* cannot be created, or a write to it fails) is Stopped: IsStopped() is
\* true, so no later frame is accepted as successful.
C21_IOErrorStopsFileSink == sk.io # "none" => sk.f.stopped

\* C22: after any read error or write error (frame write or ping) on its
\* connection the WebSocket sink is Stopped: IsStopped() is true, so later
\* writes are rejected.
C22_ConnErrorStopsWebSocketSink == sk.net # "none" => sk.e.stopped

\* the tick of session s builds a frame and offers it to a running
\* replay-file sink whose queue holds its full capacity
TickMeetsFullQueue(s) ==
    /\ Open(s)
    /\ nframes' # nframes
    /\ pl'[s] # pl[s]
    /\ ~fs[s].stopped /\ ~FileCtxDone(fs[s])
    /\ Len(fs[s].q) >= QueueCap

\* C24: a frame dropped because a bounded queue is full has no effect
\* beyond the drop: sink, session and poller keep running and the
\* inactivity timer is reset for that tick.
C24_OverflowOnlyDrops ==
    [][\A s \in Sids : TickMeetsFullQueue(s) =>
          /\ pl'[s].pc = "wait"
          /\ ~fs'[s].stopped
          /\ pl'[s].idle = 0]_vars

\* a WriteFrame on a running stream sink meets its full outgoing queue
StreamWriteMeetsFullQueue ==
    /\ sk'.calls # sk.calls
    /\ ~sk.stopped
    /\ Len(sk.q) >= QueueCap

\* C23: a write to a remote sink whose bounded outgoing queue is full drops
\* the incoming frame: the queued frames are unchanged in content and
\* order, no close of the sink is started and its connection stays open.
C23_FullRemoteQueueDropsNewest ==
    [][StreamWriteMeetsFullQueue =>
          /\ sk'.q = sk.q
          /\ sk'.closing = sk.closing
          /\ sk'.conn = sk.conn
          /\ sk'.cancelled = sk.cancelled]_vars

\* C25: a remote sink that is closed or cancelled delivers the frames
\* already in its outgoing queue before its background task terminates: a
\* sender task that ended on its context, with no connection error before,
\* left no frame queued.
C25_RemoteDrainsBeforeExit ==
    (sk.kind = "multi" /\ sk.e.run = "done" /\ sk.net = "none")
        => sk.e.q = <<>>

\* C26: a sink outputs frames in the order they were enqueued: the frames
\* written to the stream connection carry increasing numbers.
C26_SinkKeepsEnqueueOrder ==
    \A i, j \in 1..Len(sk.wire) : i < j => sk.wire[i] < sk.wire[j]

\* the position of stage op in the log of the close, 0 when it did not run
StagePos(op) ==
    LET at == {i \in 1..Len(call.ret) : call.ret[i].op = op}
    IN  IF at = {} THEN 0 ELSE CHOOSE i \in at : TRUE

\* C27: a close of the replay file that meets no error runs its stages in
\* this order: flush of the chunk buffer, close of the compressor, close of
\* the container, and only then fsync and close of the underlying file.
C27_CloseStagesInOrder ==
    (CloseOver /\ \A i \in 1..Len(call.ret) : call.ret[i].ok) =>
        /\ StagePos("flush") = 1
        /\ StagePos("compressor") # 0
              => StagePos("compressor") < StagePos("container")
        /\ StagePos("flush") < StagePos("container")
        /\ StagePos("container") < StagePos("sync")
        /\ StagePos("sync") < StagePos("close")

\* a frame as it is expected back: its time cut to the millisecond
OnMillisecond(fr) == [fr EXCEPT !.ts.sub = 0]

\* C28: a replay file written with N frames whose payloads hold no tab and
\* no newline, read back, yields exactly N records whose timestamp (to the
\* millisecond), session bytes and bones bytes equal the originals.
C28_ReplayFileRoundTrip ==
    call.fn = "read" =>
        /\ call.ret.read.ok
        /\ Len(call.ret.read.frames) = Len(call.arg)
        /\ \A i \in 1..Len(call.arg) :
              call.ret.read.frames[i] = OnMillisecond(call.arg[i])

\* parsePortRange has returned
Parsed == call.fn = "parsePortRange" /\ call.n = 1

\* an item the argument syntax rejects: a text that is no number, a range
\* with a missing bound or a second dash, a range with startPort > endPort
Malformed(it) == it.k = "bad" \/ (it.k = "range" /\ it.a > it.b)

\* an item that names a port above the highest port
AboveMaxPort(it) ==
    it.k \in {"port", "padded", "range"} /\ (it.a > MaxPort \/ it.b > MaxPort)

\* the ports the items stand for, in listed order
RECURSIVE ListedPorts(_)
ListedPorts(items) ==
    IF items = <<>> THEN <<>>
    ELSE LET it == Head(items)
             own == IF it.k \in {"port", "padded"} THEN <<it.a>>
                    ELSE IF it.k = "range"
                    THEN [i \in 1..(it.b - it.a + 1) |-> it.a + i - 1]
                    ELSE <<>>
         IN  own \o ListedPorts(Tail(items))

C30_AcceptedPortsInRange ==
    (Parsed /\ ~call.ret.err) =>
        \A i \in 1..Len(call.ret.ports) :
            1 <= call.ret.ports[i] /\ call.ret.ports[i] <= MaxPort

\* the endpoints of the target set in insertion order: host by host in the
\* order the hosts were first named, each with the ports stored for it
RECURSIVE InsertionOrder(_, _, _)
InsertionOrder(args, targets, done) ==
    IF args = <<>> THEN <<>>
    ELSE LET host == Head(args).host
         IN  IF host \in done THEN InsertionOrder(Tail(args), targets, done)
             ELSE HostEndpoints(host, targets[host])
                  \o InsertionOrder(Tail(args), targets, done \cup {host})

\* C31: every scan cycle visits the endpoints of the target set in
\* insertion order, the same order in every cycle, also when the targets
\* span several hosts.
C31_ScanInInsertionOrder ==
    Scanning =>
        \A c \in 1..Len(call.ret.cycles) :
            call.ret.cycles[c]
                = InsertionOrder(call.arg, call.ret.targets, {})

\* the endpoints an argument names
ArgEndpoints(hp) == {<<hp.host, hp.ports[i]>> : i \in 1..Len(hp.ports)}

\* C40: the target set is the union of the expansions of all arguments:
\* when two arguments name the same host, the ports of both are targets.
C40_TargetsAreUnionOfArguments ==
    Scanning =>
        UNION {ArgEndpoints([host |-> h, ports |-> call.ret.targets[h]]) :
                 h \in DOMAIN call.ret.targets}
          = UNION {ArgEndpoints(call.arg[i]) : i \in 1..Len(call.arg)}

\* C32: a frequency <= 0 is rejected before anything is polled; for every
\* accepted frequency the polling interval is 1 s / frequency (1 s for 1,
\* 1 ms for 1000) and strictly positive.
C32_IntervalIsSecondOverFrequency ==
    call.fn = "frequency" =>
        /\ call.arg <= 0 => call.ret.state \in {"new", "rejected"}
        /\ call.ret.state \in {"interval", "ticking", "panic"} =>
              /\ call.ret.interval * call.arg <= Second
              /\ Second < (call.ret.interval + 1) * call.arg
              /\ call.arg = 1 => call.ret.interval = Second
              /\ call.arg = 1000 => call.ret.interval = 1000000
              /\ call.ret.interval > 0

\* C33: isNewerVersion(current, latest) is true exactly when the numeric
\* (major, minor, patch) triple of latest -- a leading "v" stripped,
\* missing components 0, each component its leading digits -- is strictly
\* greater than that of current in lexicographic order; equal triples give
\* false; a current of "dev" or empty gives true.
LeadingDigits(s) ==
    LET k == CHOOSE k \in 0..Len(s) :
                 /\ \A i \in 1..k : s[i] \in DigitChars
                 /\ (k < Len(s) => s[k + 1] \notin DigitChars)
    IN  IF k = 0 THEN 0 ELSE DecimalValue(SubSeq(s, 1, k))

Component(s, i) ==
    LET idx == {0} \cup {j \in 1..Len(s) : s[j] = "."} \cup {Len(s) + 1}
        below(j) == Cardinality({m \in idx : m < j})
    IN  IF Cardinality(idx) < i + 1 THEN <<>>
        ELSE LET a == CHOOSE j \in idx : below(j) = i - 1
                 b == CHOOSE j \in idx : below(j) = i
             IN  SubSeq(s, a + 1, b - 1)

Triple(version) ==
    LET s == IF version # <<>> /\ Head(version) = "v" THEN Tail(version)
             ELSE version
    IN  [i \in 1..3 |-> LeadingDigits(Component(s, i))]

TripleGreater(a, b) ==
    \E i \in 1..3 : a[i] > b[i] /\ \A j \in 1..(i - 1) : a[j] = b[j]

DevOrEmpty(version) ==
    version \in {<<>>, <<"v">>, <<"d", "e", "v">>, <<"v", "d", "e", "v">>}

C33_NewerIsGreaterTriple ==
    (call.fn = "isNewerVersion" /\ call.n = 1) =>
        /\ DevOrEmpty(call.arg.current) => call.ret
        /\ ~DevOrEmpty(call.arg.current) =>
             (call.ret <=> TripleGreater(Triple(call.arg.latest),
                                         Triple(call.arg.current)))
        /\ (/\ ~DevOrEmpty(call.arg.current)
            /\ Triple(call.arg.latest) = Triple(call.arg.current))
             => ~call.ret

C33_PaddedNumericCompare ==
    /\ call.fn = "isNewerVersion" /\ call.n = 1
    /\ call.arg.current = <<"v", "2", ".", "2", "b">>
    /\ call.arg.latest = <<"2", ".", "1", "0", ".", "0">>
    /\ call.ret

\* C34: with remove-original requested, ConvertFile removes the input
\* file only after every frame was read and the output file was written
\* and closed successfully; on an earlier error the input stays.
C34_RemovedOnlyAfterOutputClosed ==
    (call.fn = "ConvertFile" /\ call.ret.input = "removed") =>
        /\ call.arg.remove
        /\ call.ret.read = call.arg.frames
        /\ call.ret.written = call.arg.frames
        /\ call.ret.out = "encoded"
        /\ call.ret.closed = "ok"

\* C35: each record appended to the chunk buffer is written through the
\* compressor exactly once and in append order, by the threshold flush
\* (which resets the buffer) or by the final flush at close: what has been
\* written is never rewritten, a step adds at most the record it took from
\* the queue behind everything appended before, the buffer stays below the
\* threshold, and a drain task that ends without a failed write leaves the
\* buffer empty.
C35_RecordsWrittenOnceInOrder ==
    [][sk.f.pf = "run" =>
         LET before == sk.f.out \o sk.f.buf
             after  == sk'.f.out \o sk'.f.buf
         IN  /\ Len(sk.f.out) <= Len(sk'.f.out)
             /\ SubSeq(sk'.f.out, 1, Len(sk.f.out)) = sk.f.out
             /\ \/ after = before
                \/ sk.f.q # <<>> /\ after = Append(before, Head(sk.f.q))
             /\ (sk'.io = "none" /\ sk'.f.pf = "run")
                  => Len(sk'.f.buf) < ChunkFrames
             /\ (sk'.io = "none" /\ sk'.f.pf = "done")
                  => (sk'.f.buf = <<>> /\ sk'.f.out = before)]_vars

C35_ChunkThenFinalFlush ==
    /\ sk.f.pf = "done" /\ sk.io = "none" /\ sk.f.closed
    /\ Len(sk.f.out) = ChunkFrames + 1
    /\ sk.f.buf = <<>>

\* C36: a frame's session and bones bytes are the verbatim response
\* bodies of its own tick: what the drain task reads and writes for a
\* frame is, for each part received, the body of the frame's tick, however
\* many later ticks reset and refilled the poller's buffers meanwhile.
C36_FrameBytesAreOwnTick ==
    call.fn = "poller" =>
        \A i \in 1..Len(call.ret.written) : \A p \in Buffers :
            call.ret.written[i].len[p] =>
                call.ret.written[i].bytes[p] =
                    [tick |-> call.ret.written[i].tick, torn |-> FALSE]

\* C37: if every child sink of a fan-out session has stopped, the session
\* does not keep running forever: a WriteFrame made on the fan-out from
\* then on returns an error to the poller, so the tick leaves the
\* inactivity window running (the timer is not reset) and the window
\* expires.
AllChildrenStopped == sk.kind = "multi" /\ sk.f.stopped /\ sk.e.stopped

C37_AllStoppedSurfacesToPoller ==
    [][(AllChildrenStopped /\ sk'.calls = sk.calls + 1) =>
          /\ sk'.last = "err"
          /\ \A idle \in 1..TimeoutTicks :
               TimerAfterWrite(idle, sk'.last = "nil") = idle]_vars

\* C38: at any time at most one poller is emitting frames for a base URL:
\* a new session and poller are started for it only after the previous
\* session reported Stopped; a frame is enqueued only by the poller of the
\* session the map holds, and only while that session has not reported
\* Stopped; once a session reports Stopped its poller's context is done,
\* so it makes no further tick and returns.
GenerationStopped(g) == SessionIsStopped(sk.kind, sk.gen[g].p)

GenerationEnqueues(g) ==
    \/ Len(sk'.gen[g].p.f.q) > Len(sk.gen[g].p.f.q)
    \/ Len(sk'.gen[g].p.e.q) > Len(sk.gen[g].p.e.q)

C39_EveryExitClosesFile ==
    CloseOver => (StagePos("container") # 0 /\ StagePos("close") # 0)

====
